---------------------------- MODULE Spec2Model ----------------------------
(***************************************************************************)
(* Market Data Aggregator (buiqtuan/demo-trade, market_data_aggregator/).  *)
(* The Redis-backed cache with its circuit-breaker entries, the provider   *)
(* adapters' get_quotes / get_asset_list, the orchestrator's background    *)
(* loops and the HTTP handlers that touch circuits or adapters.            *)
(*                                                                         *)
(* Time is the wall clock in seconds; it advances in steps of TickStep.    *)
(* Tasks are asyncio coroutines: a task runs until it awaits a provider    *)
(* call or the second Redis command of is_circuit_open, where the other    *)
(* tasks may run.                                                          *)
(***************************************************************************)
EXTENDS Integers, Sequences, FiniteSets, TLC

VARIABLES
    now,          \* datetime.utcnow(), seconds
    redisUp,      \* the Redis server answers commands
    providers,    \* keys of DataAggregatorService._providers
    circuit,      \* Redis keys circuit_breaker:{provider}
    failures,     \* Redis keys failures:{provider}
    quotes,       \* Redis keys quotes:{symbol}
    assets,       \* Redis keys assets:{asset_type}
    activeKey,    \* Redis key config:active_symbols
    configActive, \* settings.get_active_symbols_list()
    pc,           \* position of each task
    qActive,      \* run_price_fetch_loop: active_symbols
    qTodo,        \* run_price_fetch_loop: symbol_groups still to fetch
    qProv,        \* _fetch_quotes_for_asset_type: primary_provider
    qAll,         \* run_price_fetch_loop: all_quotes
    aTodo,        \* run_asset_list_update: asset types still to update
    aProv,        \* _update_asset_list_for_type: primary_provider
    aEnum,        \* _update_asset_list_for_type: provider_enum
    aWake,        \* run_asset_list_update: when the wait for the next cycle ends
    hIdx,         \* get_circuit_breaker_status: position in DataProvider
    lastUpdate,   \* _last_asset_update, _last_price_update, _last_news_update
    stampKey,     \* Redis keys last_update:{task}
    nfail,        \* number of upstream failures injected so far
    quoteErrorAt, \* when the last quotes call of each provider raised (history)
    life,         \* shutdown(): _shutdown_event, adapters still to disconnect, cache
    newsKey,      \* Redis keys news:general and news:{symbol}
    nTodo,        \* _fetch_company_news: stock_symbols still to fetch
    rq,           \* one adapter: _request_count, _last_request_time, _rate_limit_lock, callers of _make_request
    nsym,         \* a symbol and what _normalize_symbol makes of it
    bad,          \* the cache keys whose stored value does not decode, and the last read
    db,           \* backend database: user cash, holdings, transactions
    mdc,          \* backend MarketDataClient: the request being retried
    ev            \* what the last step did (history)

vars == <<now, redisUp, providers, circuit, failures, quotes, assets,
          activeKey, configActive, pc, qActive, qTodo, qProv, qAll,
          aTodo, aProv, aEnum, aWake, hIdx, lastUpdate, stampKey, nfail,
          quoteErrorAt, life, newsKey, nTodo, rq, nsym, bad, db, mdc, ev>>

\* the state of the adapters' request path, of the symbol normalisation, of
\* the cache decoding and of the backend, which the aggregator's tasks leave
\* alone
extVars == <<rq, nsym, bad, db, mdc>>

-----------------------------------------------------------------------------
(* Bounds of the model *)

TickStep == 310
MaxTime == 620
MaxFailures == 2

-----------------------------------------------------------------------------
(* Settings (core/config.py) *)

circuit_breaker_timeout == 300
circuit_grace == 60
failures_ttl == 3600
quotes_cache_ttl == 300
assets_cache_ttl == 86400
asset_list_update_interval == 86400
active_symbols_ttl == 3600
last_update_ttl == 86400

AssetType == <<"stocks", "crypto", "forex">>
AssetTypes == {AssetType[i] : i \in 1..Len(AssetType)}

DataProvider == <<"yfinance", "finnhub", "coingecko", "coinmarketcap", "alpha_vantage">>
Providers == {DataProvider[i] : i \in 1..Len(DataProvider)}

PRIMARY_PROVIDERS == [t \in AssetTypes |->
    CASE t = "stocks" -> "yfinance"
      [] t = "crypto" -> "coingecko"
      [] t = "forex"  -> "alpha_vantage"]

FALLBACK_PROVIDERS == [t \in AssetTypes |->
    CASE t = "stocks" -> "finnhub"
      [] t = "crypto" -> "coinmarketcap"
      [] t = "forex"  -> "yfinance"]

supports_asset_type(p, t) ==
    CASE p = "yfinance"      -> t \in {"stocks", "forex"}
      [] p = "finnhub"       -> t = "stocks"
      [] p = "coingecko"     -> t = "crypto"
      [] p = "coinmarketcap" -> t = "crypto"
      [] p = "alpha_vantage" -> t \in {"forex", "stocks"}

-----------------------------------------------------------------------------
(* Strings are sequences of one-character strings *)

LowerChars == <<"a","b","c","d","e","h","l","p","r","s","t","u","x">>
UpperChars == <<"A","B","C","D","E","H","L","P","R","S","T","U","X">>

UpperChar(c) ==
    IF \E i \in 1..Len(LowerChars) : LowerChars[i] = c
    THEN UpperChars[CHOOSE i \in 1..Len(LowerChars) : LowerChars[i] = c]
    ELSE c

Upper(s) == [i \in 1..Len(s) |-> UpperChar(s[i])]

RECURSIVE Strip(_)
Strip(s) ==
    IF s = <<>> THEN s
    ELSE IF Head(s) = " " THEN Strip(Tail(s))
    ELSE IF s[Len(s)] = " " THEN Strip(SubSeq(s, 1, Len(s) - 1))
    ELSE s

Contains(s, sub) ==
    \E i \in 1..(Len(s) - Len(sub) + 1) : SubSeq(s, i, i + Len(sub) - 1) = sub

EndsWith(s, suf) ==
    /\ Len(s) >= Len(suf)
    /\ SubSeq(s, Len(s) - Len(suf) + 1, Len(s)) = suf

DropLast(s, n) == SubSeq(s, 1, Len(s) - n)

SplitSlash(s) ==
    LET i == CHOOSE k \in 1..Len(s) : s[k] = "/" /\ \A j \in 1..(k-1) : s[j] # "/"
    IN  <<SubSeq(s, 1, i - 1), SubSeq(s, i + 1, Len(s))>>

SeqToSet(s) == {s[i] : i \in 1..Len(s)}

AAPL   == <<"A","A","P","L">>
MSFT   == <<"M","S","F","T">>
BTCUSD == <<"B","T","C","-","U","S","D">>
EURUSD == <<"E","U","R","/","U","S","D">>
aapl   == <<"a","a","p","l">>
DADA   == <<"D","A","D","A">>


-----------------------------------------------------------------------------
(* Optional values and dictionaries *)

Nil == <<>>
Some(x) == <<x>>

EmptyDict == <<>>

DictUpdate(d, e) ==
    [k \in (DOMAIN d) \cup (DOMAIN e) |-> IF k \in DOMAIN e THEN e[k] ELSE d[k]]

-----------------------------------------------------------------------------
(* Quote (api/schemas.py) *)

\* a price is a number of 10^-9 units; round(v, 8) keeps multiples of 10 of
\* them, the half rounding up as it does for 5e-9
round_unit == 10

round8(v) == ((v + round_unit \div 2) \div round_unit) * round_unit

\* the validators of symbol and price accept the arguments
QuoteValid(symbol, price) == Strip(symbol) # <<>> /\ ~(price <= 0)

\* Quote(symbol=..., price=..., source=...) when the validators accept the
\* arguments: the fields as the validators return them
Quote(symbol, price, source) ==
    [symbol    |-> Upper(Strip(symbol)),
     price     |-> round8(price),
     source    |-> source]

-----------------------------------------------------------------------------
(* CacheService (services/cache.py) *)

\* Redis removes a key when its TTL has run out
Live(entry) == now < entry.exp

\* the instant d seconds from now; every instant past the last clock value
\* stands for "later than the run"
After(d) == IF now + d > MaxTime THEN MaxTime + 1 ELSE now + d

\* SETEX key ttl: the instant the key expires
setex(ttl) == After(ttl)

\* is_circuit_open with the comparison of line 99 turned round: an entry
\* within its timeout is taken for an expired one
circuit_get_inverted(p) ==
    IF ~redisUp THEN "error"
    ELSE IF circuit[p] = Nil THEN "closed"
    ELSE IF circuit[p][1].is_open
         THEN IF now < circuit[p][1].trip_time + circuit_breaker_timeout
              THEN "stale" ELSE "open"
         ELSE "closed"

\* is_circuit_open up to its first await: GET circuit_breaker:{provider}
\*   "error"  the command raised, is_circuit_open returns False
\*   "closed" no entry, returns False
\*   "stale"  timeout expired, close_circuit is awaited next, then returns False
\*   "open"   returns True
circuit_get(p) ==
    IF ~redisUp THEN "error"
    ELSE IF circuit[p] = Nil THEN "closed"
    ELSE IF circuit[p][1].is_open
         THEN IF now > circuit[p][1].trip_time + circuit_breaker_timeout
              THEN "stale" ELSE "open"
         ELSE "closed"

increment_failure_count(p) ==
    IF failures[p] = Nil THEN 1 ELSE failures[p][1].n + 1

\* the entry of trip_circuit written with is_open False
trip_circuit_entry_closed(p) ==
    [is_open       |-> FALSE,
     trip_time     |-> now,
     failure_count |-> increment_failure_count(p),
     exp           |-> setex(circuit_breaker_timeout + circuit_grace)]

trip_circuit_entry(p) ==
    [is_open       |-> TRUE,
     trip_time     |-> now,
     failure_count |-> increment_failure_count(p),
     exp           |-> setex(circuit_breaker_timeout + circuit_grace)]

\* trip_circuit: INCR/EXPIRE failures:{p}, SETEX circuit_breaker:{p};
\* a Redis error is logged and swallowed
trip_circuit(p) ==
    IF redisUp
    THEN /\ failures' = [failures EXCEPT ![p] =
                Some([n |-> increment_failure_count(p), exp |-> setex(failures_ttl)])]
         /\ circuit' = [circuit EXCEPT ![p] = Some(trip_circuit_entry(p))]
    ELSE UNCHANGED <<failures, circuit>>

\* close_circuit deleting the failure counter only
close_circuit_keeps_entry(p) ==
    IF redisUp
    THEN /\ failures' = [failures EXCEPT ![p] = Nil]
         /\ UNCHANGED circuit
    ELSE UNCHANGED <<failures, circuit>>

\* close_circuit: DELETE circuit_breaker:{p}, DELETE failures:{p}
close_circuit(p) ==
    IF redisUp
    THEN /\ circuit' = [circuit EXCEPT ![p] = Nil]
         /\ failures' = [failures EXCEPT ![p] = Nil]
    ELSE UNCHANGED <<failures, circuit>>

\* get_quotes_from_cache: the pipeline of GETs, Quote(**json.loads(result)) of
\* every key found, a value that json.loads or the validators refuse being
\* skipped; a Redis error gives {}
quote_decodable(k) ==
    /\ k \in DOMAIN quotes
    /\ k \notin bad.quotes
    /\ QuoteValid(quotes[k].q.symbol, quotes[k].q.price)

\* a value that does not decode reaching the outer except clause: the read
\* of the whole batch gives {}
get_quotes_from_cache_all_or_nothing(symbols) ==
    IF ~redisUp \/ symbols = <<>> THEN EmptyDict
    ELSE IF \E k \in SeqToSet(symbols) : k \in DOMAIN quotes /\ ~quote_decodable(k)
         THEN EmptyDict
    ELSE [s \in {k \in SeqToSet(symbols) : quote_decodable(k)} |->
            Quote(quotes[s].q.symbol, quotes[s].q.price, quotes[s].q.source)]

get_quotes_from_cache(symbols) ==
    IF ~redisUp \/ symbols = <<>> THEN EmptyDict
    ELSE [s \in {k \in SeqToSet(symbols) : quote_decodable(k)} |->
            Quote(quotes[s].q.symbol, quotes[s].q.price, quotes[s].q.source)]

\* the results collected in a list instead of a dict: a key is appended every
\* time it is found
RECURSIVE dict_keys_from_appends(_, _, _)
dict_keys_from_appends(symbols, i, seen) ==
    IF i > Len(symbols) THEN <<>>
    ELSE IF ~quote_decodable(symbols[i])
         THEN dict_keys_from_appends(symbols, i + 1, seen)
         ELSE <<symbols[i]>> \o dict_keys_from_appends(symbols, i + 1, seen)

\* the keys of the dict that get_quotes_from_cache returns, in the order of
\* their insertion
RECURSIVE dict_keys_from(_, _, _)
dict_keys_from(symbols, i, seen) ==
    IF i > Len(symbols) THEN <<>>
    ELSE IF symbols[i] \in seen \/ ~quote_decodable(symbols[i])
         THEN dict_keys_from(symbols, i + 1, seen)
         ELSE <<symbols[i]>> \o dict_keys_from(symbols, i + 1, seen \cup {symbols[i]})

get_quotes_from_cache_keys(symbols) ==
    IF ~redisUp THEN <<>> ELSE dict_keys_from(symbols, 1, {})

set_quotes_in_cache(m) ==
    IF redisUp /\ m # EmptyDict
    THEN quotes' = DictUpdate(quotes,
                     [k \in DOMAIN m |-> [q |-> m[k], exp |-> setex(quotes_cache_ttl)]])
    ELSE UNCHANGED quotes

\* get_active_symbols: the cached list, else the configured list, which is
\* then cached; on a Redis error the configured list
get_active_symbols_result ==
    IF redisUp /\ activeKey # Nil THEN activeKey[1].v ELSE configActive

get_active_symbols_effect ==
    IF redisUp /\ activeKey = Nil
    THEN activeKey' = Some([v |-> configActive, exp |-> setex(active_symbols_ttl)])
    ELSE UNCHANGED activeKey

\* set_last_update_time: SETEX last_update:{key}; a Redis error is logged and
\* swallowed
set_last_update_time(key, timestamp) ==
    IF redisUp
    THEN stampKey' = [stampKey EXCEPT ![key] =
                         Some([v |-> timestamp, exp |-> setex(last_update_ttl)])]
    ELSE UNCHANGED stampKey

\* CacheService.get_asset_list: the cached list; [] when there is none, when
\* json.loads or Asset(**asset_data) raises, and on a Redis error
cache_get_asset_list(t) ==
    IF redisUp /\ assets[t] # Nil /\ t \notin bad.assets THEN assets[t][1].v ELSE <<>>

-----------------------------------------------------------------------------
(* Provider adapters (providers/) *)

\* BaseDataProvider._make_request: att[i] is what the upstream does to the
\* i-th attempt; the result is the data marker or the exception raised
retry_count == 3

RECURSIVE make_request_from(_, _)
make_request_from(att, attempt) ==
    \* attempt counts from 0 as in the source
    IF attempt >= retry_count THEN [res |-> "ProviderError", n |-> attempt]
    ELSE LET o == IF attempt + 1 <= Len(att) THEN att[attempt + 1] ELSE att[Len(att)]
             last == ~(attempt < retry_count - 1)
         IN  CASE o = "ok"      -> [res |-> "data", n |-> attempt + 1]
               [] o = "429"     -> IF last THEN [res |-> "RateLimitError", n |-> attempt + 1]
                                   ELSE make_request_from(att, attempt + 1)
               [] o = "401"     -> [res |-> "AuthenticationError", n |-> attempt + 1]
               [] o = "badjson" -> [res |-> "ProviderError", n |-> attempt + 1]
               [] o = "timeout" -> IF last THEN [res |-> "ProviderError", n |-> attempt + 1]
                                   ELSE make_request_from(att, attempt + 1)
               [] OTHER         -> \* httpx.HTTPError: network error, 4xx, 5xx
                                   IF last THEN [res |-> "ProviderError", n |-> attempt + 1]
                                   ELSE make_request_from(att, attempt + 1)

make_request(att) == make_request_from(att, 0)

\* BaseDataProvider._create_quote
create_quote(p, symbol, price) == Quote(symbol, price, p)

Ok(d)    == [exc |-> "none", quotes |-> d]
Raise(e) == [exc |-> e, quotes |-> EmptyDict]

CountChar(s, c) == Cardinality({i \in 1..Len(s) : s[i] = c})

\* YFinanceProvider._normalize_symbol; <<>> stands for the ValueError of
\* unpacking symbol.split('/')
yfinance_normalize_symbol(symbol, t) ==
    LET u == Upper(Strip(symbol))
    IN  IF t = "forex"
        THEN IF Contains(u, <<"/">>)
             THEN IF CountChar(u, "/") = 1
                  THEN SplitSlash(u)[1] \o SplitSlash(u)[2] \o <<"=","X">>
                  ELSE <<>>
             ELSE IF EndsWith(u, <<"=","X">>) THEN u
             ELSE IF Len(u) = 6 THEN u \o <<"=","X">> ELSE u
        ELSE u

yfinance_upstream_symbol(symbol) ==
    yfinance_normalize_symbol(symbol,
        IF Contains(symbol, <<"/">>) \/ EndsWith(symbol, <<"=","X">>)
        THEN "forex" ELSE "stocks")

\* the last symbol of the list that normalizes to n (symbol_map); norms[i]
\* is the normalized form of symbols[i]
LastMapped(symbols, norms, n) ==
    symbols[CHOOSE i \in 1..Len(symbols) :
                /\ norms[i] = n
                /\ \A j \in (i+1)..Len(symbols) : norms[j] # n]

\* YFinanceProvider.get_quotes giving every requested symbol a quote as soon
\* as the upstream answered for one of them
yfinance_get_quotes_defaulting(symbols, up) ==
    IF symbols = <<>> THEN Ok(EmptyDict)
    ELSE IF up.fault THEN Raise("ProviderError")
    ELSE IF Head(up.att) # "ok" \/ up.data = {} \/ up.price = 0 THEN Ok(EmptyDict)
    ELSE Ok([s \in SeqToSet(symbols) |-> create_quote("yfinance", s, up.price)])

\* YFinanceProvider.get_quotes with _fetch_quotes_sync
\*   up.fault  yf.Tickers or the executor raises
\*   up.att    what the ticker.info request meets
\*   up.data   the upstream symbols that have a price, up.price
yfinance_get_quotes(symbols, up) ==
    IF symbols = <<>> THEN Ok(EmptyDict)
    ELSE IF \E i \in 1..Len(symbols) : yfinance_upstream_symbol(symbols[i]) = <<>>
         THEN Raise("ProviderError")
    ELSE IF up.fault THEN Raise("ProviderError")
    ELSE LET norm == {yfinance_upstream_symbol(symbols[i]) : i \in 1..Len(symbols)}
             quotes_data == {n \in norm : /\ Head(up.att) = "ok"
                                          /\ n \in up.data
                                          /\ up.price # 0}
             orig(n) == LastMapped(symbols,
                        [i \in 1..Len(symbols) |-> yfinance_upstream_symbol(symbols[i])], n)
         IN  IF \E n \in quotes_data : ~QuoteValid(orig(n), up.price)
             THEN Raise("ProviderError")
             ELSE Ok([s \in {orig(n) : n \in quotes_data} |->
                        create_quote("yfinance", s, up.price)])

\* FinnhubProvider.get_quotes: one /quote request per symbol, every
\* exception of a symbol is logged and the symbol skipped
finnhub_upstream_symbol(symbol) == Upper(symbol)

finnhub_get_quotes(symbols, up) ==
    IF symbols = <<>> THEN Ok(EmptyDict)
    ELSE Ok([s \in {k \in SeqToSet(symbols) :
                      /\ make_request(up.att).res = "data"
                      /\ finnhub_upstream_symbol(k) \in up.data
                      /\ ~(up.price <= 0)
                      /\ QuoteValid(k, up.price)} |->
               create_quote("finnhub", s, up.price)])

\* CoinGeckoProvider._normalize_symbol
crypto_normalize_symbol(symbol) ==
    LET u == Upper(Strip(symbol))
    IN  IF EndsWith(u, <<"-","U","S","D">>) THEN DropLast(u, 4)
        ELSE IF EndsWith(u, <<"U","S","D">>) THEN DropLast(u, 3)
        ELSE IF EndsWith(u, <<"-","U","S","D","T">>) THEN DropLast(u, 5)
        ELSE u

\* CoinGeckoProvider._symbol_to_coingecko_id (the entries the model uses)
symbol_to_coingecko_id(symbol) ==
    LET u == Upper(symbol)
    IN  CASE u = <<"B","T","C">> -> <<"bitcoin">>
          [] u = <<"E","T","H">> -> <<"ethereum">>
          [] u = <<"A","D","A">> -> <<"cardano">>
          [] u = <<"D","O","T">> -> <<"polkadot">>
          [] OTHER -> <<>>

coingecko_upstream_symbol(symbol) ==
    symbol_to_coingecko_id(crypto_normalize_symbol(symbol))

\* CoinGeckoProvider.get_quotes: one /simple/price request for all ids
coingecko_get_quotes(symbols, up) ==
    IF symbols = <<>> THEN Ok(EmptyDict)
    ELSE LET ids == {coingecko_upstream_symbol(symbols[i]) : i \in 1..Len(symbols)} \ {<<>>}
             orig(n) == LastMapped(symbols,
                        [i \in 1..Len(symbols) |-> coingecko_upstream_symbol(symbols[i])], n)
             price_data == ids \cap up.data
         IN  IF ids = {} THEN Ok(EmptyDict)
             ELSE IF make_request(up.att).res # "data" THEN Raise("ProviderError")
             ELSE IF \E n \in price_data : ~QuoteValid(orig(n), up.price)
                  THEN Raise("ProviderError")
             ELSE Ok([s \in {orig(n) : n \in price_data} |->
                        create_quote("coingecko", s, up.price)])

\* CoinMarketCapProvider.get_quotes: one /cryptocurrency/quotes/latest request
coinmarketcap_upstream_symbol(symbol) == crypto_normalize_symbol(symbol)

coinmarketcap_get_quotes(symbols, up) ==
    IF symbols = <<>> THEN Ok(EmptyDict)
    ELSE IF make_request(up.att).res # "data" THEN Raise("ProviderError")
    ELSE Ok([s \in {k \in SeqToSet(symbols) :
                      /\ coinmarketcap_upstream_symbol(k) \in up.data
                      /\ ~(up.price <= 0)
                      /\ QuoteValid(k, up.price)} |->
               create_quote("coinmarketcap", s, up.price)])

\* AlphaVantageProvider.get_quotes with _get_forex_quote / _get_stock_quote:
\* every exception of a symbol is logged and the symbol skipped
alpha_vantage_is_forex(symbol) ==
    Contains(symbol, <<"/">>) \/ Len(symbol) - CountChar(symbol, "/") = 6

alpha_vantage_upstream_symbol(symbol) ==
    IF alpha_vantage_is_forex(symbol)
    THEN IF Contains(symbol, <<"/">>)
         THEN IF CountChar(symbol, "/") = 1 THEN symbol ELSE <<>>
         ELSE IF Len(symbol) = 6
              THEN SubSeq(symbol, 1, 3) \o <<"/">> \o SubSeq(symbol, 4, 6)
              ELSE <<>>
    ELSE symbol

alpha_vantage_get_quotes(symbols, up) ==
    IF symbols = <<>> THEN Ok(EmptyDict)
    ELSE Ok([s \in {k \in SeqToSet(symbols) :
                      /\ alpha_vantage_upstream_symbol(k) # <<>>
                      /\ make_request(up.att).res = "data"
                      /\ alpha_vantage_upstream_symbol(k) \in up.data
                      /\ ~(up.price <= 0)
                      /\ QuoteValid(k, up.price)} |->
               create_quote("alpha_vantage", s, up.price)])

upstream_symbol(p, symbol) ==
    CASE p = "yfinance"      -> yfinance_upstream_symbol(symbol)
      [] p = "finnhub"       -> finnhub_upstream_symbol(symbol)
      [] p = "coingecko"     -> coingecko_upstream_symbol(symbol)
      [] p = "coinmarketcap" -> coinmarketcap_upstream_symbol(symbol)
      [] p = "alpha_vantage" -> alpha_vantage_upstream_symbol(symbol)

get_quotes(p, symbols, up) ==
    CASE p = "yfinance"      -> yfinance_get_quotes(symbols, up)
      [] p = "finnhub"       -> finnhub_get_quotes(symbols, up)
      [] p = "coingecko"     -> coingecko_get_quotes(symbols, up)
      [] p = "coinmarketcap" -> coinmarketcap_get_quotes(symbols, up)
      [] p = "alpha_vantage" -> alpha_vantage_get_quotes(symbols, up)

\* BaseDataProvider.health_check: a quote of a known symbol, no exception
\* leaves it
health_check_symbols(p) ==
    IF supports_asset_type(p, "stocks") THEN <<AAPL>>
    ELSE IF supports_asset_type(p, "crypto") THEN <<BTCUSD>>
    ELSE IF supports_asset_type(p, "forex") THEN <<EURUSD>>
    ELSE <<>>

health_check(p, up) ==
    IF health_check_symbols(p) = <<>> THEN TRUE
    ELSE LET r == get_quotes(p, health_check_symbols(p), up)
         IN  r.exc = "none" /\ r.quotes # EmptyDict

\* get_asset_list: Yahoo and Alpha Vantage answer from a curated list (its
\* first entry stands for the list), the others from one upstream request
\*   up.att     what the request meets
\*   up.assets  the symbols of the listing
AssetsOk(l)    == [exc |-> "none", assets |-> l]
AssetsRaise(e) == [exc |-> e, assets |-> <<>>]

get_asset_list(p, t, up) ==
    IF ~supports_asset_type(p, t) THEN AssetsOk(<<>>)
    ELSE CASE p \in {"yfinance", "alpha_vantage"} ->
                AssetsOk(IF t = "stocks" THEN <<AAPL>> ELSE <<EURUSD>>)
           [] OTHER ->
                IF make_request(up.att).res # "data" THEN AssetsRaise("ProviderError")
                ELSE AssetsOk(up.assets)

-----------------------------------------------------------------------------
(* DataAggregatorService (services/data_aggregator.py) *)

crypto_tickers == {<<"B","T","C">>, <<"E","T","H">>, <<"A","D","A">>, <<"D","O","T">>,
                   <<"X","R","P">>, <<"L","T","C">>, <<"D","O","G","E">>}

classify_symbol(symbol) ==
    IF Contains(symbol, <<"/">>) \/ EndsWith(symbol, <<"=","X">>) THEN "forex"
    ELSE IF \E c \in crypto_tickers : Contains(Upper(symbol), c) THEN "crypto"
    ELSE "stocks"

RECURSIVE group_order(_, _)
group_order(symbols, acc) ==
    IF symbols = <<>> THEN acc
    ELSE LET t == classify_symbol(Head(symbols))
         IN  group_order(Tail(symbols),
                         IF t \in SeqToSet(acc) THEN acc ELSE Append(acc, t))

\* _group_symbols_by_asset_type with insert(0, symbol) for append(symbol)
group_symbols_prepending(symbols) ==
    LET order == group_order(symbols, <<>>)
        bucket(t) == SelectSeq(symbols, LAMBDA x : classify_symbol(x) = t)
        rev(q) == [i \in 1..Len(q) |-> q[Len(q) + 1 - i]]
    IN  [i \in 1..Len(order) |-> [asset_type |-> order[i], symbols |-> rev(bucket(order[i]))]]

\* _group_symbols_by_asset_type: the dict in insertion order
group_symbols_by_asset_type(symbols) ==
    LET order == group_order(symbols, <<>>)
        bucket(t) == SelectSeq(symbols, LAMBDA x : classify_symbol(x) = t)
    IN  [i \in 1..Len(order) |-> [asset_type |-> order[i], symbols |-> bucket(order[i])]]

\* the circuit entry of p as the store holds it, whoever can reach the store
CircuitIsOpen(p) ==
    /\ circuit[p] # Nil
    /\ circuit[p][1].is_open
    /\ ~(now > circuit[p][1].trip_time + circuit_breaker_timeout)

\* history of the last step: the task, what it did ("call" of a provider
\* adapter, "close" of is_circuit_open, an endpoint), the provider called,
\* what the upstream did (attempts, symbols answered), how the call ended,
\* the argument of the trip_circuit and of the close_circuit it awaited
Event(t, o, p, a, d, r, x, c) ==
    [task |-> t, op |-> o, prov |-> p, att |-> a, data |-> d, out |-> r,
     tripped |-> x, closed |-> c]

NoEvent == Event("-", "-", "-", <<>>, {}, "-", "-", "-")

\* inputs: what the upstream of a provider answers to one adapter call
\* prices: none, one below half of what round(v, 8) keeps (the crypto
\* upstreams quote tokens that low), and multiples of what it keeps
MaxPrice == 1
SubUnitPrice == round_unit \div 2 - 1
UpPrices == {0, SubUnitPrice} \cup {round_unit * k : k \in 1..MaxPrice}
UpAttempts == {<<"ok">>, <<"timeout", "5xx", "429">>}

QuoteUps(p, symbols) ==
    [fault : IF p = "yfinance" THEN BOOLEAN ELSE {FALSE},
     att   : UpAttempts,
     data  : SUBSET ({upstream_symbol(p, symbols[i]) : i \in 1..Len(symbols)} \ {<<>>}),
     price : IF p \in {"coingecko", "coinmarketcap"}
             THEN UpPrices ELSE UpPrices \ {SubUnitPrice}]

AssetUps == [att : UpAttempts, assets : {<<>>, <<BTCUSD>>}]

ProviderErrors == {"ProviderError", "RateLimitError", "AuthenticationError", "DataNotFoundError"}

Tasks == {"asset", "price", "news", "http"}

\* get_last_update_times: the keys of the dict
UpdateKeys == {"asset_list_update", "price_fetch", "news_fetch"}

\* start_background_tasks creates the three tasks; the event loop runs each
\* to its first await before any of them is resumed, and the first statement
\* of run_news_fetch_loop raises
Started == pc["news"] # "start"

\* shutdown() has not been called: _shutdown_event is clear and no task has
\* a cancellation pending
Running == life.phase = "running"

\* ---- run_price_fetch_loop ----

\* the iteration given up where a group ends, as when an exception reaches
\* the except clause of the loop: nothing is written, the loop sleeps
PriceIterationAborted(active, todo, all) ==
    /\ UNCHANGED <<quotes, lastUpdate, stampKey>>
    /\ qActive' = <<>>
    /\ qTodo' = <<>>
    /\ qProv' = "-"
    /\ qAll' = EmptyDict
    /\ pc' = [pc EXCEPT !["price"] = "sleep"]

\* the group at the head of todo is done: the next group, or, after the
\* last one, set_quotes_in_cache(all_quotes) and the sleep
PriceGroupDone(active, todo, all) ==
    IF Tail(todo) = <<>>
    THEN /\ set_quotes_in_cache(all)
         /\ lastUpdate' = [lastUpdate EXCEPT !["price_fetch"] = Some(now)]
         /\ set_last_update_time("price_fetch", now)
         /\ qActive' = <<>>
         /\ qTodo' = <<>>
         /\ qProv' = "-"
         /\ qAll' = EmptyDict
         /\ pc' = [pc EXCEPT !["price"] = "sleep"]
    ELSE /\ UNCHANGED <<quotes, lastUpdate, stampKey>>
         /\ qActive' = active
         /\ qTodo' = Tail(todo)
         /\ qProv' = "-"
         /\ qAll' = all
         /\ pc' = [pc EXCEPT !["price"] = "fetch"]

PriceAwait(active, todo, all, prov, at) ==
    /\ UNCHANGED <<quotes, lastUpdate, stampKey>>
    /\ qActive' = active
    /\ qTodo' = todo
    /\ qProv' = prov
    /\ qAll' = all
    /\ pc' = [pc EXCEPT !["price"] = at]

\* _fetch_quotes_for_asset_type up to the provider call
PriceSelectFrom(active, todo, all) ==
    LET t    == Head(todo).asset_type
        prim == PRIMARY_PROVIDERS[t]
        fb   == FALLBACK_PROVIDERS[t]
        r    == circuit_get(prim)
    IN  IF prim \notin providers
        THEN PriceGroupDone(active, todo, all)
        ELSE CASE r = "stale" -> PriceAwait(active, todo, all, "-", "closing")
               [] r = "open"  -> IF fb \in providers
                                 THEN PriceAwait(active, todo, all, fb, "call")
                                 ELSE PriceGroupDone(active, todo, all)
               [] OTHER       -> PriceAwait(active, todo, all, prim, "call")

\* an iteration starts: get_active_symbols, _group_symbols_by_asset_type
PriceStart ==
    /\ Running
    /\ UNCHANGED <<life, newsKey, nTodo>>
    /\ pc["price"] = "sleep"
    /\ Started
    /\ get_active_symbols_effect
    /\ LET active_symbols == get_active_symbols_result
       IN  IF active_symbols = <<>>
           THEN UNCHANGED <<pc, quotes, qActive, qTodo, qProv, qAll,
                            lastUpdate, stampKey>>
           ELSE PriceAwait(active_symbols,
                           group_symbols_by_asset_type(active_symbols),
                           EmptyDict, "-", "fetch")
    /\ ev' = IF get_active_symbols_result = <<>>
             THEN Event("price", "no_symbols", "-", <<>>, {}, "-", "-", "-")
             ELSE NoEvent
    /\ UNCHANGED <<now, redisUp, providers, extVars, circuit, failures, assets,
                   configActive, aTodo, aProv, aEnum, aWake, hIdx, nfail, quoteErrorAt>>

PriceSelect ==
    /\ Running
    /\ UNCHANGED <<life, newsKey, nTodo>>
    /\ pc["price"] = "fetch"
    /\ PriceSelectFrom(qActive, qTodo, qAll)
    /\ ev' = NoEvent
    /\ UNCHANGED <<now, redisUp, providers, extVars, circuit, failures, assets,
                   activeKey, configActive, aTodo, aProv, aEnum, aWake, hIdx, nfail, quoteErrorAt>>

\* is_circuit_open after the stale GET: close_circuit, return False
PriceClose ==
    /\ Running
    /\ UNCHANGED <<life, newsKey, nTodo>>
    /\ pc["price"] = "closing"
    /\ close_circuit(PRIMARY_PROVIDERS[Head(qTodo).asset_type])
    /\ PriceAwait(qActive, qTodo, qAll, PRIMARY_PROVIDERS[Head(qTodo).asset_type], "call")
    /\ ev' = Event("price", "close", "-", <<>>, {}, "-", "-",
                   PRIMARY_PROVIDERS[Head(qTodo).asset_type])
    /\ UNCHANGED <<now, redisUp, providers, extVars, assets,
                   activeKey, configActive, aTodo, aProv, aEnum, aWake, hIdx, nfail, quoteErrorAt>>

\* the provider call of _fetch_quotes_for_asset_type and its except clauses
PriceCall ==
    /\ Running
    /\ UNCHANGED <<life, newsKey, nTodo>>
    /\ pc["price"] = "call"
    /\ \E up \in QuoteUps(qProv, Head(qTodo).symbols) :
         LET res == get_quotes(qProv, Head(qTodo).symbols, up)
         IN  CASE res.exc = "none" ->
                    /\ PriceGroupDone(qActive, qTodo, DictUpdate(qAll, res.quotes))
                    /\ UNCHANGED <<circuit, failures, nfail>>
                    /\ UNCHANGED quoteErrorAt
                    /\ ev' = Event("price", "call", qProv, up.att, up.data,
                                   IF res.quotes = EmptyDict THEN "empty" ELSE "ok",
                                   "-", "-")
               [] res.exc \in ProviderErrors ->
                    /\ nfail < MaxFailures
                    /\ nfail' = nfail + 1
                    /\ trip_circuit(qProv)
                    /\ PriceGroupDone(qActive, qTodo, qAll)
                    /\ quoteErrorAt' = [quoteErrorAt EXCEPT ![qProv] = now]
                    /\ ev' = Event("price", "call", qProv, up.att, up.data,
                                   "ProviderError", qProv, "-")
               [] OTHER ->
                    /\ PriceGroupDone(qActive, qTodo, qAll)
                    /\ UNCHANGED <<circuit, failures, nfail, quoteErrorAt>>
                    /\ ev' = Event("price", "call", qProv, up.att, up.data,
                                   "Exception", "-", "-")
    /\ UNCHANGED <<now, redisUp, providers, extVars, assets,
                   activeKey, configActive, aTodo, aProv, aEnum, aWake, hIdx>>

\* ---- run_asset_list_update ----

\* the type at the head of todo is done: the next type, or, after the last
\* one, the wait of asset_list_update_interval seconds
AssetTypeDone(todo) ==
    /\ aTodo' = Tail(todo)
    /\ aProv' = "-"
    /\ aEnum' = "-"
    /\ IF Tail(todo) = <<>>
       THEN /\ pc' = [pc EXCEPT !["asset"] = "sleep"]
            /\ lastUpdate' = [lastUpdate EXCEPT !["asset_list_update"] = Some(now)]
            /\ set_last_update_time("asset_list_update", now)
            /\ aWake' = After(asset_list_update_interval)
       ELSE /\ pc' = [pc EXCEPT !["asset"] = "fetch"]
            /\ UNCHANGED <<aWake, lastUpdate, stampKey>>

AssetAwait(todo, prov, enum, at) ==
    /\ aTodo' = todo
    /\ aProv' = prov
    /\ aEnum' = enum
    /\ UNCHANGED <<aWake, lastUpdate, stampKey>>
    /\ pc' = [pc EXCEPT !["asset"] = at]

\* _update_asset_list_for_type up to the provider call; provider_enum is
\* assigned once, from the primary provider
AssetSelectFrom(todo) ==
    LET t    == Head(todo)
        prim == PRIMARY_PROVIDERS[t]
        fb   == FALLBACK_PROVIDERS[t]
        r    == circuit_get(prim)
    IN  IF prim \notin providers \/ ~supports_asset_type(prim, t)
        THEN AssetTypeDone(todo)
        ELSE CASE r = "stale" -> AssetAwait(todo, "-", prim, "closing")
               [] r = "open"  -> IF fb \in providers
                                 THEN IF supports_asset_type(fb, t)
                                      THEN AssetAwait(todo, fb, prim, "call")
                                      ELSE AssetTypeDone(todo)
                                 ELSE AssetTypeDone(todo)
               [] OTHER       -> AssetAwait(todo, prim, prim, "call")

\* an iteration starts: for asset_type in AssetType, the first type
AssetStart ==
    /\ Running
    /\ UNCHANGED <<life, newsKey, nTodo>>
    /\ pc["asset"] = "sleep"
    /\ Started
    /\ now >= aWake
    /\ AssetSelectFrom(AssetType)
    /\ ev' = NoEvent
    /\ UNCHANGED <<now, redisUp, providers, extVars, circuit, failures, quotes, assets,
                   activeKey, configActive, qActive, qTodo, qProv, qAll,
                   hIdx, nfail, quoteErrorAt>>

AssetSelect ==
    /\ Running
    /\ UNCHANGED <<life, newsKey, nTodo>>
    /\ pc["asset"] = "fetch"
    /\ AssetSelectFrom(aTodo)
    /\ ev' = NoEvent
    /\ UNCHANGED <<now, redisUp, providers, extVars, circuit, failures, quotes, assets,
                   activeKey, configActive, qActive, qTodo, qProv, qAll,
                   hIdx, nfail, quoteErrorAt>>

AssetClose ==
    /\ Running
    /\ UNCHANGED <<life, newsKey, nTodo>>
    /\ pc["asset"] = "closing"
    /\ close_circuit(aEnum)
    /\ AssetAwait(aTodo, aEnum, aEnum, "call")
    /\ ev' = Event("asset", "close", "-", <<>>, {}, "-", "-", aEnum)
    /\ UNCHANGED <<now, redisUp, providers, extVars, quotes, assets,
                   activeKey, configActive, qActive, qTodo, qProv, qAll,
                   hIdx, nfail, quoteErrorAt>>

\* set_asset_list writing the list under the key of every class
set_asset_list_every_key(t, l) ==
    IF redisUp
    THEN assets' = [x \in AssetTypes |-> Some([v |-> l, exp |-> setex(assets_cache_ttl)])]
    ELSE UNCHANGED assets

set_asset_list(t, l) ==
    IF redisUp
    THEN assets' = [assets EXCEPT ![t] = Some([v |-> l, exp |-> setex(assets_cache_ttl)])]
    ELSE UNCHANGED assets

\* the provider call of _update_asset_list_for_type and its except clauses
AssetCall ==
    /\ Running
    /\ UNCHANGED <<life, newsKey, nTodo>>
    /\ pc["asset"] = "call"
    /\ \E up \in AssetUps :
         LET res == get_asset_list(aProv, Head(aTodo), up)
         IN  CASE res.exc = "none" ->
                    /\ IF res.assets # <<>>
                       THEN set_asset_list(Head(aTodo), res.assets)
                       ELSE UNCHANGED assets
                    /\ UNCHANGED <<circuit, failures, nfail>>
                    /\ ev' = Event("asset", "call", aProv, up.att, {},
                                   IF res.assets = <<>> THEN "empty" ELSE "ok",
                                   "-", "-")
               [] res.exc \in ProviderErrors ->
                    /\ nfail < MaxFailures
                    /\ nfail' = nfail + 1
                    /\ trip_circuit(aEnum)
                    /\ UNCHANGED assets
                    /\ ev' = Event("asset", "call", aProv, up.att, {},
                                   "ProviderError", aEnum, "-")
               [] OTHER ->
                    /\ UNCHANGED <<assets, circuit, failures, nfail>>
                    /\ ev' = Event("asset", "call", aProv, up.att, {},
                                   "Exception", "-", "-")
    /\ AssetTypeDone(aTodo)
    /\ UNCHANGED <<now, redisUp, providers, extVars, quotes,
                   activeKey, configActive, qActive, qTodo, qProv, qAll, hIdx, quoteErrorAt>>

\* ---- run_news_fetch_loop ----

\* Settings defines no news_fetch_interval: the first statement of the
\* coroutine raises AttributeError and the task is done
settings_has_news_fetch_interval == FALSE

NewsStart ==
    /\ Running
    /\ UNCHANGED <<life, newsKey, nTodo>>
    /\ pc["news"] = "start"
    /\ pc' = [pc EXCEPT !["news"] =
                IF settings_has_news_fetch_interval THEN "sleep" ELSE "crashed"]
    /\ ev' = NoEvent
    /\ UNCHANGED <<now, redisUp, providers, extVars, circuit, failures, quotes, assets,
                   activeKey, configActive, qActive, qTodo, qProv, qAll,
                   aTodo, aProv, aEnum, aWake, hIdx, nfail, quoteErrorAt,
                   lastUpdate, stampKey>>

\* ---- a news iteration: _fetch_general_news, _fetch_company_news ----

\* CacheService defines neither set_general_news nor set_company_news: the
\* call raises AttributeError, inside the try around the provider call
cache_has_set_general_news == FALSE
cache_has_set_company_news == FALSE

\* what the upstream of get_general_news / get_company_news has to give
FinnhubNews == {<<>>, <<"f1">>}
YahooNews == {<<>>, <<"y1">>}

\* a news call of an adapter: the articles, or an exception
NewsOutcomes(lists) ==
    {[exc |-> FALSE, articles |-> a] : a \in lists}
        \cup {[exc |-> TRUE, articles |-> <<>>]}

\* what no function of the news loop touches
NewsFrame ==
    UNCHANGED <<now, redisUp, providers, extVars, quotes, assets, configActive,
                qActive, qTodo, qProv, qAll, aTodo, aProv, aEnum, aWake,
                hIdx, nfail, quoteErrorAt, life>>

NewsStep(at) ==
    /\ pc' = [pc EXCEPT !["news"] = at]
    /\ UNCHANGED <<lastUpdate, stampKey>>

\* the end of the try block of the loop, then the wait for the next cycle,
\* which reads settings.news_fetch_interval
NewsIterationEnd ==
    /\ lastUpdate' = [lastUpdate EXCEPT !["news_fetch"] = Some(now)]
    /\ set_last_update_time("news_fetch", now)
    /\ pc' = [pc EXCEPT !["news"] =
                IF settings_has_news_fetch_interval THEN "sleep" ELSE "crashed"]

\* _fetch_general_news up to the provider call
NewsGeneral ==
    /\ Running
    /\ pc["news"] = "iterate"
    /\ LET r == circuit_get("finnhub")
       IN  /\ NewsStep(CASE "finnhub" \notin providers -> "company"
                         [] r = "open"                 -> "company"
                         [] r = "stale"                -> "gclosing"
                         [] OTHER                      -> "gcall")
           /\ ev' = Event("news", "general_select", "finnhub", <<>>, {},
                          IF "finnhub" \in providers THEN r ELSE "-", "-", "-")
    /\ UNCHANGED <<circuit, failures, activeKey, newsKey, nTodo>>
    /\ NewsFrame

\* is_circuit_open, second part: close_circuit of the expired entry
NewsGeneralClose ==
    /\ Running
    /\ pc["news"] = "gclosing"
    /\ close_circuit("finnhub")
    /\ NewsStep("gcall")
    /\ ev' = Event("news", "general_close", "finnhub", <<>>, {}, "-", "-", "finnhub")
    /\ UNCHANGED <<activeKey, newsKey, nTodo>>
    /\ NewsFrame

\* get_general_news returns or raises; articles are handed to
\* set_general_news; every exception of the inner try trips the circuit
NewsGeneralCall ==
    /\ Running
    /\ pc["news"] = "gcall"
    /\ \E up \in NewsOutcomes(FinnhubNews) :
          LET stored == ~up.exc /\ up.articles # <<>> /\ cache_has_set_general_news
              raised == up.exc \/ (up.articles # <<>> /\ ~cache_has_set_general_news)
          IN  /\ newsKey' = IF stored
                            THEN [newsKey EXCEPT !.general = Some(up.articles)]
                            ELSE newsKey
              /\ IF raised THEN trip_circuit("finnhub")
                           ELSE UNCHANGED <<circuit, failures>>
              /\ ev' = Event("news", "general_call", "finnhub", up.articles, {},
                             IF up.exc THEN "raise" ELSE "returned",
                             IF raised THEN "finnhub" ELSE "-", "-")
    /\ NewsStep("company")
    /\ UNCHANGED <<activeKey, nTodo>>
    /\ NewsFrame

\* _fetch_company_news: the symbols without '/' and without '=X'
stock_symbols(active_symbols) ==
    SelectSeq(active_symbols,
              LAMBDA symbol : ~Contains(symbol, <<"/">>) /\ ~Contains(symbol, <<"=","X">>))

NewsCompany ==
    /\ Running
    /\ pc["news"] = "company"
    /\ get_active_symbols_effect
    /\ nTodo' = stock_symbols(get_active_symbols_result)
    /\ IF stock_symbols(get_active_symbols_result) = <<>>
       THEN NewsIterationEnd
       ELSE NewsStep("symbol")
    /\ ev' = Event("news", "company", "-", <<>>,
                   SeqToSet(stock_symbols(get_active_symbols_result)), "-", "-", "-")
    /\ UNCHANGED <<circuit, failures, newsKey>>
    /\ NewsFrame

\* the symbol at the head of nTodo is done
NewsSymbolDone ==
    /\ nTodo' = Tail(nTodo)
    /\ IF Tail(nTodo) = <<>> THEN NewsIterationEnd ELSE NewsStep("symbol")

\* _fetch_company_news_for_symbol up to the call of Finnhub
NewsSymbol ==
    /\ Running
    /\ pc["news"] = "symbol"
    /\ LET r == circuit_get("finnhub")
       IN  /\ NewsStep(CASE "finnhub" \notin providers -> "ycall"
                         [] r = "open"                 -> "ycall"
                         [] r = "stale"                -> "cclosing"
                         [] OTHER                      -> "ccall")
           /\ ev' = Event("news", "company_select", "finnhub", <<>>, {Head(nTodo)},
                          IF "finnhub" \in providers THEN r ELSE "-", "-", "-")
    /\ UNCHANGED <<circuit, failures, activeKey, newsKey, nTodo>>
    /\ NewsFrame

NewsSymbolClose ==
    /\ Running
    /\ pc["news"] = "cclosing"
    /\ close_circuit("finnhub")
    /\ NewsStep("ccall")
    /\ ev' = Event("news", "company_close", "finnhub", <<>>, {Head(nTodo)}, "-", "-", "finnhub")
    /\ UNCHANGED <<activeKey, newsKey, nTodo>>
    /\ NewsFrame

\* Step A and B: Finnhub's get_company_news; articles are handed to
\* set_company_news and the function returns; an exception of the inner try
\* trips the circuit; Step C follows unless the function returned
NewsFinnhubCall ==
    /\ Running
    /\ pc["news"] = "ccall"
    /\ \E up \in NewsOutcomes(FinnhubNews) :
          LET stored == ~up.exc /\ up.articles # <<>> /\ cache_has_set_company_news
              raised == up.exc \/ (up.articles # <<>> /\ ~cache_has_set_company_news)
          IN  /\ newsKey' = IF stored
                            THEN [newsKey EXCEPT !.company =
                                     DictUpdate(@, [k \in {Head(nTodo)} |-> up.articles])]
                            ELSE newsKey
              /\ IF raised THEN trip_circuit("finnhub")
                           ELSE UNCHANGED <<circuit, failures>>
              /\ IF stored THEN NewsSymbolDone
                           ELSE NewsStep("ycall") /\ UNCHANGED nTodo
              /\ ev' = Event("news", "company_call", "finnhub", up.articles, {Head(nTodo)},
                             IF up.exc THEN "raise" ELSE "returned",
                             IF raised THEN "finnhub" ELSE "-", "-")
    /\ UNCHANGED activeKey
    /\ NewsFrame

\* Step C and D: yfinance's get_company_news; an exception of the inner try
\* is logged
NewsYahooCall ==
    /\ Running
    /\ pc["news"] = "ycall"
    /\ IF "yfinance" \notin providers
       THEN /\ ev' = Event("news", "company_fallback", "-", <<>>, {Head(nTodo)}, "-", "-", "-")
            /\ UNCHANGED newsKey
       ELSE \E up \in NewsOutcomes(YahooNews) :
              LET stored == ~up.exc /\ up.articles # <<>> /\ cache_has_set_company_news
              IN  /\ newsKey' = IF stored
                                THEN [newsKey EXCEPT !.company =
                                         DictUpdate(@, [k \in {Head(nTodo)} |-> up.articles])]
                                ELSE newsKey
                  /\ ev' = Event("news", "company_fallback", "yfinance", up.articles,
                                 {Head(nTodo)},
                                 IF up.exc THEN "raise" ELSE "returned", "-", "-")
    /\ NewsSymbolDone
    /\ UNCHANGED <<circuit, failures, activeKey>>
    /\ NewsFrame

-----------------------------------------------------------------------------
(* HTTP handlers (api/endpoints.py, main.py) *)

Min(S) == CHOOSE x \in S : \A y \in S : x <= y

\* the response of a handler: the status code and the body
Response(status, body) == [status |-> status, body |-> body]

\* health_check without its PING: True once connect() has set the client
cache_health_check_no_ping == TRUE

\* CacheService.health_check: PING
cache_health_check == redisUp

\* are_background_tasks_running: some task of _running_tasks is not done
are_background_tasks_running ==
    \E t \in {"asset", "price", "news"} : pc[t] # "crashed"

recent_seconds == 3600

\* GET /ready: has_recent_updates
has_recent_updates ==
    \E k \in UpdateKeys :
        lastUpdate[k] # Nil /\ now - lastUpdate[k][1] < recent_seconds

ready ==
    IF cache_health_check /\ are_background_tasks_running /\ has_recent_updates
    THEN Response("200", "ready") ELSE Response("503", "not_ready")

\* GET /healthz
healthz ==
    IF cache_health_check /\ are_background_tasks_running
    THEN Response("200", "healthy") ELSE Response("503", "unhealthy")

\* GET /health: HealthResponse.status
health_status ==
    IF cache_health_check /\ are_background_tasks_running
    THEN "healthy" ELSE "unhealthy"

\* get_circuit_breaker_status from the i-th DataProvider on: is_circuit_open
\* of each provider in turn; the handler is suspended where a stale entry
\* makes is_circuit_open await close_circuit
ScanFrom(i) ==
    LET stale == {j \in i..Len(DataProvider) : circuit_get(DataProvider[j]) = "stale"}
    IN  IF stale = {}
        THEN /\ pc' = [pc EXCEPT !["http"] = "idle"]
             /\ hIdx' = 0
        ELSE /\ pc' = [pc EXCEPT !["http"] = "closing"]
             /\ hIdx' = Min(stale)

\* GET /health: cache ping, task check, get_circuit_breaker_status
HttpHealth ==
    /\ Running
    /\ UNCHANGED <<life, newsKey, nTodo>>
    /\ pc["http"] = "idle"
    /\ Started
    /\ ScanFrom(1)
    /\ ev' = Event("http", "health_check", "-", <<>>, Response("200", health_status),
                   "200", "-", "-")
    /\ UNCHANGED <<now, redisUp, providers, extVars, circuit, failures, quotes, assets,
                   activeKey, configActive, qActive, qTodo, qProv, qAll,
                   aTodo, aProv, aEnum, aWake, nfail, quoteErrorAt,
                   lastUpdate, stampKey>>

\* get_provider_health_status: health_check, hence get_quotes, of every
\* registered provider
provider_health_event ==
    IF providers # {}
    THEN Event("http", "get_provider_health_status", "-", <<>>, {}, "upstream", "-", "-")
    ELSE NoEvent

\* GET /v1/providers/status: get_provider_health_status, then
\* get_circuit_breaker_status
HttpProviderStatus ==
    /\ Running
    /\ UNCHANGED <<life, newsKey, nTodo>>
    /\ pc["http"] = "idle"
    /\ Started
    /\ ScanFrom(1)
    /\ ev' = provider_health_event
    /\ UNCHANGED <<now, redisUp, providers, extVars, circuit, failures, quotes, assets,
                   activeKey, configActive, qActive, qTodo, qProv, qAll,
                   aTodo, aProv, aEnum, aWake, nfail, quoteErrorAt,
                   lastUpdate, stampKey>>

\* GET /info: get_provider_health_status, then get_circuit_breaker_status
HttpInfo ==
    /\ Running
    /\ UNCHANGED <<life, newsKey, nTodo>>
    /\ pc["http"] = "idle"
    /\ Started
    /\ ScanFrom(1)
    /\ ev' = provider_health_event
    /\ UNCHANGED <<now, redisUp, providers, extVars, circuit, failures, quotes, assets,
                   activeKey, configActive, qActive, qTodo, qProv, qAll,
                   aTodo, aProv, aEnum, aWake, nfail, quoteErrorAt,
                   lastUpdate, stampKey>>

\* is_circuit_open of get_circuit_breaker_status after the stale GET
HttpClose ==
    /\ Running
    /\ UNCHANGED <<life, newsKey, nTodo>>
    /\ pc["http"] = "closing"
    /\ close_circuit(DataProvider[hIdx])
    /\ ScanFrom(hIdx + 1)
    /\ ev' = Event("http", "close", "-", <<>>, {}, "-", "-", DataProvider[hIdx])
    /\ UNCHANGED <<now, redisUp, providers, extVars, quotes, assets,
                   activeKey, configActive, qActive, qTodo, qProv, qAll,
                   aTodo, aProv, aEnum, aWake, nfail, quoteErrorAt,
                   lastUpdate, stampKey>>

\* GET /v1/symbols/active: cache_service.get_active_symbols()
HttpActiveSymbols ==
    /\ Running
    /\ UNCHANGED <<life, newsKey, nTodo>>
    /\ pc["http"] = "idle"
    /\ Started
    /\ get_active_symbols_effect
    /\ ev' = Event("http", "get_active_symbols", "-", get_active_symbols_result, {},
                   "200", "-", "-")
    /\ UNCHANGED <<now, redisUp, providers, extVars, circuit, failures, quotes, assets,
                   configActive, pc, qActive, qTodo, qProv, qAll,
                   aTodo, aProv, aEnum, aWake, hIdx, nfail, quoteErrorAt,
                   lastUpdate, stampKey>>

\* the route /v1/quote/{symbol}: a path parameter holds no "/", and a path
\* that matches no route is answered by not_found_handler
single_quote_route(symbol) == symbol # <<>> /\ ~Contains(symbol, <<"/">>)

\* GET /v1/quote/{symbol}
get_single_quote(symbol) ==
    LET sym == Upper(Strip(symbol))
    IN  IF ~single_quote_route(symbol) THEN Response("404", "NOT_FOUND")
        ELSE IF sym = <<>> THEN Response("400", "HTTP_400")
        ELSE IF sym \notin DOMAIN get_quotes_from_cache(<<sym>>)
             THEN Response("404", "HTTP_404")
        ELSE Response("200", get_quotes_from_cache(<<sym>>)[sym])

\* str.split(','): the pieces of s between the commas
SplitComma(s) ==
    LET commas == SelectSeq([i \in 1..Len(s) |-> i], LAMBDA i : s[i] = ",")
        cut(k) == IF k = 0 THEN 0
                  ELSE IF k > Len(commas) THEN Len(s) + 1 ELSE commas[k]
    IN  [k \in 1..(Len(commas) + 1) |-> SubSeq(s, cut(k - 1) + 1, cut(k) - 1)]

\* the list comprehension of get_quotes without its filter: a blank piece is
\* kept as an empty symbol
symbol_list_keeps_blanks(symbols) ==
    LET pieces == SplitComma(symbols)
    IN  [i \in 1..Len(pieces) |-> Upper(Strip(pieces[i]))]

\* [s.strip().upper() for s in symbols.split(',') if s.strip()]
symbol_list(symbols) ==
    LET pieces == SplitComma(symbols)
        kept   == SelectSeq(pieces, LAMBDA x : Strip(x) # <<>>)
    IN  [i \in 1..Len(kept) |-> Upper(Strip(kept[i]))]

max_symbols == 100

\* GET /v1/quotes?symbols=...: the status code, whether the cache was read,
\* the symbol_list passed to get_quotes_from_cache, and the QuoteResponse
get_quotes_endpoint(symbols) ==
    LET list == symbol_list(symbols)
        quotes_dict == get_quotes_from_cache(list)
        keys == get_quotes_from_cache_keys(list)
        quotes_list == [i \in 1..Len(keys) |-> quotes_dict[keys[i]]]
    IN  IF Strip(symbols) = <<>> \/ list = <<>> \/ Len(list) > max_symbols
        THEN [status |-> "400", read_cache |-> FALSE, requested |-> <<>>,
              quotes |-> <<>>, total |-> 0, cache_hit |-> FALSE]
        ELSE [status |-> "200", read_cache |-> TRUE, requested |-> list,
              quotes |-> quotes_list, total |-> Len(quotes_list),
              cache_hit |-> Len(quotes_list) > 0]

\* the paths and query strings that the clients send
Join(a, b) == a \o <<",">> \o b

RECURSIVE Repeat(_, _)
Repeat(symbol, n) == IF n = 1 THEN symbol ELSE Join(symbol, Repeat(symbol, n - 1))

PathSymbols == {aapl, MSFT, EURUSD, <<" ">>}

QuoteRequests ==
    {<<>>, <<" ", ",", " ">>,
     Join(BTCUSD, Join(aapl, Join(<<" ">> \o AAPL, Join(MSFT, BTCUSD))))}

BatchRequests ==
    {Repeat(AAPL, max_symbols), Repeat(AAPL, max_symbols + 1),
     Join(Repeat(<<" ">>, max_symbols), AAPL)}

HttpRead(op, request, response) ==
    /\ Running
    /\ UNCHANGED <<life, newsKey, nTodo>>
    /\ pc["http"] = "idle"
    /\ Started
    /\ ev' = Event("http", op, "-", request, response, response.status, "-", "-")
    /\ UNCHANGED <<now, redisUp, providers, extVars, circuit, failures, quotes, assets,
                   activeKey, configActive, pc, qActive, qTodo, qProv, qAll,
                   aTodo, aProv, aEnum, aWake, hIdx, nfail, quoteErrorAt,
                   lastUpdate, stampKey>>

HttpQuotes ==
    \E symbols \in QuoteRequests : HttpRead("get_quotes", symbols, get_quotes_endpoint(symbols))

HttpQuotesBatch ==
    \E symbols \in BatchRequests : HttpRead("get_quotes", symbols, get_quotes_endpoint(symbols))

HttpSingleQuote ==
    \E symbol \in PathSymbols : HttpRead("get_single_quote", symbol, get_single_quote(symbol))

\* GET /v1/assets/{asset_type}
HttpAssets ==
    \E t \in AssetTypes : HttpRead("get_assets", <<t>>, Response("200", cache_get_asset_list(t)))

HttpHealthz == HttpRead("healthz", <<>>, healthz)

HttpReady == HttpRead("ready", <<>>, ready)

-----------------------------------------------------------------------------
(* Environment: the clock and the Redis server *)

Expire(entry, t) == IF entry # Nil /\ entry[1].exp <= t THEN Nil ELSE entry

Tick ==
    /\ UNCHANGED <<life, newsKey, nTodo>>
    /\ Started
    /\ now + TickStep <= MaxTime
    /\ now' = now + TickStep
    /\ circuit' = [p \in Providers |-> Expire(circuit[p], now + TickStep)]
    /\ failures' = [p \in Providers |-> Expire(failures[p], now + TickStep)]
    /\ assets' = [t \in AssetTypes |-> Expire(assets[t], now + TickStep)]
    /\ activeKey' = Expire(activeKey, now + TickStep)
    /\ stampKey' = [k \in DOMAIN stampKey |-> Expire(stampKey[k], now + TickStep)]
    /\ quotes' = [k \in {x \in DOMAIN quotes : quotes[x].exp > now + TickStep} |-> quotes[k]]
    /\ ev' = NoEvent
    /\ UNCHANGED <<redisUp, providers, extVars, configActive, pc, qActive, qTodo, qProv, qAll,
                   aTodo, aProv, aEnum, aWake, hIdx, nfail, quoteErrorAt, lastUpdate>>

RedisFail ==
    /\ UNCHANGED <<life, newsKey, nTodo>>
    /\ Started
    /\ redisUp
    /\ redisUp' = FALSE
    /\ ev' = NoEvent
    /\ UNCHANGED <<now, providers, extVars, circuit, failures, quotes, assets,
                   activeKey, configActive, pc, qActive, qTodo, qProv, qAll,
                   aTodo, aProv, aEnum, aWake, hIdx, nfail, quoteErrorAt,
                   lastUpdate, stampKey>>

RedisRecover ==
    /\ UNCHANGED <<life, newsKey, nTodo>>
    /\ ~redisUp
    /\ redisUp' = TRUE
    /\ ev' = NoEvent
    /\ UNCHANGED <<now, providers, extVars, circuit, failures, quotes, assets,
                   activeKey, configActive, pc, qActive, qTodo, qProv, qAll,
                   aTodo, aProv, aEnum, aWake, hIdx, nfail, quoteErrorAt,
                   lastUpdate, stampKey>>

\* ---- shutdown ----

\* self._running_tasks
LoopTasks == {"asset", "price", "news"}

\* task.done()
task_done(t) == pc[t] \in {"crashed", "cancelled"}

\* shutdown() without the gather
tasks_not_awaited == TRUE

\* asyncio.gather(*self._running_tasks, return_exceptions=True) returns when
\* every task is done
tasks_gathered == \A t \in LoopTasks : task_done(t)

\* self._providers.values(), in the order its keys were inserted
providers_values == SelectSeq(DataProvider, LAMBDA p : p \in providers)

\* shutdown() up to its first await: _shutdown_event.set(), then
\* task.cancel() for every task that is not done
Shutdown ==
    /\ Running
    /\ Started
    /\ life' = [life EXCEPT !.phase = "cancelling", !.at = now]
    /\ ev' = Event("shutdown", "signal", "-", <<>>, {}, "-", "-", "-")
    /\ UNCHANGED <<now, redisUp, providers, extVars, circuit, failures, quotes, assets,
                   activeKey, configActive, pc, qActive, qTodo, qProv, qAll,
                   aTodo, aProv, aEnum, aWake, hIdx, lastUpdate, stampKey, nfail,
                   quoteErrorAt, newsKey, nTodo>>

\* a cancelled task is resumed: CancelledError is raised at the await where
\* it is suspended, passes every "except Exception" and ends the task
TaskCancelled ==
    /\ life.phase = "cancelling"
    /\ \E t \in LoopTasks :
          /\ ~task_done(t)
          /\ pc' = [pc EXCEPT ![t] = "cancelled"]
          /\ ev' = Event(t, "cancelled", "-", <<>>, {}, pc[t], "-", "-")
    /\ UNCHANGED <<now, redisUp, providers, extVars, circuit, failures, quotes, assets,
                   activeKey, configActive, qActive, qTodo, qProv, qAll,
                   aTodo, aProv, aEnum, aWake, hIdx, lastUpdate, stampKey, nfail,
                   quoteErrorAt, life, newsKey, nTodo>>

\* the gather returns; the loop over the adapters begins
TasksGathered ==
    /\ life.phase = "cancelling"
    /\ tasks_gathered
    /\ life' = [life EXCEPT !.phase = "disconnecting", !.todo = providers_values]
    /\ ev' = Event("shutdown", "gathered", "-", <<>>, {}, "-", "-", "-")
    /\ UNCHANGED <<now, redisUp, providers, extVars, circuit, failures, quotes, assets,
                   activeKey, configActive, pc, qActive, qTodo, qProv, qAll,
                   aTodo, aProv, aEnum, aWake, hIdx, lastUpdate, stampKey, nfail,
                   quoteErrorAt, newsKey, nTodo>>

\* provider.disconnect() in its own try: the client is closed, or the
\* call raises and the warning is logged; the loop goes on either way
DisconnectAdapter ==
    /\ life.phase = "disconnecting"
    /\ life.todo # <<>>
    /\ \E out \in {"ok", "error"} :
          /\ life' = [life EXCEPT !.todo = Tail(life.todo),
                                  !.closed = IF out = "ok" THEN @ \cup {Head(life.todo)} ELSE @]
          /\ ev' = Event("shutdown", "disconnect", Head(life.todo), <<>>, {}, out, "-", "-")
    /\ UNCHANGED <<now, redisUp, providers, extVars, circuit, failures, quotes, assets,
                   activeKey, configActive, pc, qActive, qTodo, qProv, qAll,
                   aTodo, aProv, aEnum, aWake, hIdx, lastUpdate, stampKey, nfail,
                   quoteErrorAt, newsKey, nTodo>>

\* cache_service.disconnect(), after the loop over the adapters; shutdown()
\* returns, or raises what the disconnect raised
DisconnectCache ==
    /\ life.phase = "disconnecting"
    /\ life.todo = <<>>
    /\ \E out \in {"ok", "error"} :
          /\ life' = [life EXCEPT !.phase = "closed", !.cache = (out # "ok")]
          /\ ev' = Event("shutdown", "disconnect_cache", "-", <<>>, {}, out, "-", "-")
    /\ UNCHANGED <<now, redisUp, providers, extVars, circuit, failures, quotes, assets,
                   activeKey, configActive, pc, qActive, qTodo, qProv, qAll,
                   aTodo, aProv, aEnum, aWake, hIdx, lastUpdate, stampKey, nfail,
                   quoteErrorAt, newsKey, nTodo>>

-----------------------------------------------------------------------------
(* The service after initialize() and start_background_tasks() *)

ProviderChoices == {Providers}

\* ACTIVE_SYMBOLS: lists of one symbol, one per asset class, and a list
\* like the default one, with two symbols of a class
ActiveChoices == {<<AAPL>>, <<BTCUSD>>, <<EURUSD>>}
ActiveLists == {<<AAPL, MSFT, BTCUSD>>}

\* news_at is where the news task stands: "start" for the task that
\* start_background_tasks creates; tripped are the providers whose circuit
\* an earlier run of the service has just tripped; listed are the classes
\* whose asset list an earlier run has left in the cache
InitCore(active, news_at, tripped, listed) ==
    /\ now = 0
    /\ redisUp = TRUE
    /\ providers \in ProviderChoices
    /\ \E open \in tripped :
          /\ failures = [p \in Providers |->
                           IF p \in open
                           THEN Some([n |-> 1, exp |-> setex(failures_ttl)])
                           ELSE Nil]
          /\ circuit = [p \in Providers |->
                          IF p \in open THEN Some(trip_circuit_entry(p)) ELSE Nil]
    /\ quotes = EmptyDict
    /\ \E had \in listed :
          assets = [t \in AssetTypes |->
                      IF t \in had
                      THEN Some([v |-> <<MSFT>>, exp |-> setex(assets_cache_ttl)])
                      ELSE Nil]
    /\ activeKey = Nil
    /\ configActive \in active
    /\ pc = [t \in Tasks |->
               CASE t = "news" -> news_at
                 [] t = "http" -> "idle"
                 [] OTHER      -> "sleep"]
    /\ qActive = <<>>
    /\ qTodo = <<>>
    /\ qProv = "-"
    /\ qAll = EmptyDict
    /\ aTodo = <<>>
    /\ aProv = "-"
    /\ aEnum = "-"
    /\ aWake = 0
    /\ hIdx = 0
    /\ lastUpdate = [k \in UpdateKeys |-> Nil]
    /\ stampKey = [k \in UpdateKeys |-> Nil]
    /\ nfail = 0
    /\ quoteErrorAt = [p \in Providers |-> -1]
    /\ life = [phase |-> "running", at |-> 0, todo |-> <<>>, closed |-> {}, cache |-> TRUE]
    /\ newsKey = [general |-> Nil, company |-> EmptyDict]
    /\ nTodo = <<>>
    /\ ev = NoEvent

\* no stored value is undecodable, nothing has been read
BadNone == [quotes |-> {}, assets |-> {}, pc |-> "idle",
            got |-> [op |-> "-", arg |-> <<>>, out |-> <<>>]]

ExtOff(on) ==
    /\ "rq" \notin on => rq = "off"
    /\ "nsym" \notin on => nsym = "off"
    /\ "bad" \notin on => bad = BadNone
    /\ "db" \notin on => db = "off"
    /\ "mdc" \notin on => mdc = "off"

InitTasks(active, news_at, tripped, listed) ==
    /\ InitCore(active, news_at, tripped, listed)
    /\ ExtOff({})

InitWith(active) == InitTasks(active, "start", {{}}, {{}})

Init == InitWith(ActiveChoices)

\* every task of the service, the Redis server answering
Next ==
    \/ PriceStart
    \/ PriceSelect
    \/ PriceClose
    \/ PriceCall
    \/ AssetStart
    \/ AssetSelect
    \/ AssetClose
    \/ AssetCall
    \/ NewsStart
    \/ HttpHealth
    \/ HttpProviderStatus
    \/ HttpInfo
    \/ HttpClose
    \/ HttpActiveSymbols
    \/ Tick

Spec == Init /\ [][Next]_vars

\* the quote loop and the handlers while the Redis server comes and goes,
\* the asset-list task still waiting to be scheduled
NextOutage ==
    \/ PriceStart
    \/ PriceSelect
    \/ PriceClose
    \/ PriceCall
    \/ NewsStart
    \/ HttpHealth
    \/ HttpProviderStatus
    \/ HttpInfo
    \/ HttpClose
    \/ HttpActiveSymbols
    \/ Tick
    \/ RedisFail
    \/ RedisRecover

SpecOutage == Init /\ [][NextOutage]_vars

\* the quote loop alone, on a list of several symbols and classes
InitQuotes == InitWith(ActiveLists)

NextQuotes ==
    \/ PriceStart
    \/ PriceSelect
    \/ PriceClose
    \/ PriceCall
    \/ NewsStart
    \/ Tick

SpecQuotes == InitQuotes /\ [][NextQuotes]_vars

\* the quote loop and the clients of the quote endpoints; the active list in
\* lower case, a forex pair, and two classes together
ApiLists == {<<aapl>>, <<EURUSD>>, <<AAPL, BTCUSD>>}

InitApi == InitWith(ApiLists)

NextApi ==
    \/ PriceStart
    \/ PriceSelect
    \/ PriceClose
    \/ PriceCall
    \/ NewsStart
    \/ HttpQuotes
    \/ HttpSingleQuote
    \/ Tick

SpecApi == InitApi /\ [][NextApi]_vars

\* the quote loop on one stock and the clients that ask for a batch at the
\* limit of the endpoint
InitBatch == InitWith({<<AAPL>>})

NextBatch ==
    \/ PriceStart
    \/ PriceSelect
    \/ PriceClose
    \/ PriceCall
    \/ NewsStart
    \/ HttpQuotes
    \/ HttpQuotesBatch
    \/ Tick

SpecBatch == InitBatch /\ [][NextBatch]_vars

\* the loops with ACTIVE_SYMBOLS=",", which passes validate_active_symbols
\* and gives an empty list, or with one stock
IdleLists == {<<>>, <<AAPL>>}

InitIdle == InitWith(IdleLists)

NextIdle ==
    \/ PriceStart
    \/ PriceSelect
    \/ PriceClose
    \/ PriceCall
    \/ AssetStart
    \/ AssetSelect
    \/ AssetClose
    \/ AssetCall
    \/ NewsStart
    \/ Tick

SpecIdle == InitIdle /\ [][NextIdle]_vars

\* one iteration of the body of run_news_fetch_loop, entered at its try
\* block (the task of the service ends before it gets there)
NewsLists == {<<AAPL, MSFT>>, <<AAPL, EURUSD>>}
InitNews == InitTasks(NewsLists, "iterate", {{}, {"finnhub"}}, {{}})

NextNews ==
    \/ NewsGeneral \/ NewsGeneralClose \/ NewsGeneralCall
    \/ NewsCompany
    \/ NewsSymbol \/ NewsSymbolClose \/ NewsFinnhubCall \/ NewsYahooCall
    \/ Tick \/ RedisFail \/ RedisRecover

SpecNews == InitNews /\ [][NextNews]_vars

\* the asset-list loop over a cache that may hold the lists of an earlier
\* run and the circuit entry of a crypto provider
InitAssets ==
    InitTasks({<<AAPL>>}, "start", {{}, {"coingecko"}}, {{}, AssetTypes})

NextAssets ==
    \/ AssetStart \/ AssetSelect \/ AssetClose \/ AssetCall
    \/ NewsStart
    \/ Tick \/ RedisFail \/ RedisRecover

SpecAssets == InitAssets /\ [][NextAssets]_vars

\* the quote loop on lists whose classes alternate, and on a stock whose
\* symbol holds a crypto ticker past its first letter
GroupLists == {<<AAPL, BTCUSD, MSFT>>, <<EURUSD, AAPL, BTCUSD>>, <<DADA, AAPL>>}

InitGroups == InitWith(GroupLists)

NextGroups ==
    \/ PriceStart
    \/ PriceSelect
    \/ PriceCall
    \/ NewsStart

SpecGroups == InitGroups /\ [][NextGroups]_vars

\* the two loops over a forex list, the news task, the clock, and shutdown()
\* called at any moment after the tasks were started
InitShutdown == InitWith({<<EURUSD>>})

NextShutdown ==
    \/ PriceStart \/ PriceSelect \/ PriceCall
    \/ AssetStart \/ AssetSelect \/ AssetCall
    \/ NewsStart
    \/ Shutdown \/ TaskCancelled \/ TasksGathered
    \/ DisconnectAdapter \/ DisconnectCache
    \/ Tick

SpecShutdown == InitShutdown /\ [][NextShutdown]_vars

\* the event loop resumes a cancelled task and the coroutine of shutdown()
\* whenever they can run, and a disconnect returns or raises
SpecShutdownFair ==
    /\ SpecShutdown
    /\ WF_vars(TaskCancelled)
    /\ WF_vars(TasksGathered)
    /\ WF_vars(DisconnectAdapter)
    /\ WF_vars(DisconnectCache)

\* the three loops, the health endpoints and the readers while the Redis
\* server comes and goes, the active list being one forex pair: the Alpha
\* Vantage adapter raises no ProviderError, so neither loop meets an expired
\* entry of its primary provider and neither awaits close_circuit
InitUnreachable == InitWith({<<EURUSD>>})

NextUnreachable ==
    \/ PriceStart
    \/ PriceSelect
    \/ PriceCall
    \/ AssetStart
    \/ AssetSelect
    \/ AssetCall
    \/ NewsStart
    \/ HttpHealth
    \/ HttpClose
    \/ HttpHealthz
    \/ HttpReady
    \/ HttpAssets
    \/ Tick
    \/ RedisFail
    \/ RedisRecover

SpecUnreachable == InitUnreachable /\ [][NextUnreachable]_vars

-----------------------------------------------------------------------------
(* Properties *)

\* C1: in the quote loop and in the asset-list loop, the provider that is
\* called for a class has its own circuit closed when it is selected (the
\* fallback is used only with its own circuit closed)
C1_SelectedProviderCircuitClosed ==
    [][ /\ (pc["price"] # "call" /\ pc'["price"] = "call") => ~CircuitIsOpen(qProv')
        /\ (pc["asset"] # "call" /\ pc'["asset"] = "call") => ~CircuitIsOpen(aProv')
      ]_vars

\* C2: in both loops, the only circuit entry a provider call changes is the
\* entry of the provider that was called; when the fallback was called, the
\* primary's entry is left unchanged
C2_TripsTheProviderCalled ==
    [][ \A p \in Providers :
          /\ (pc["price"] = "call" /\ pc'["price"] # "call" /\ circuit'[p] # circuit[p])
                => p = qProv
          /\ (pc["asset"] = "call" /\ pc'["asset"] # "call" /\ circuit'[p] # circuit[p])
                => p = aProv
      ]_vars

\* C3: no HTTP endpoint handler causes a call to a provider adapter
C3_HandlersNeverCallProviders ==
    ev.task = "http" => ev.out # "upstream"

\* C4: a quotes call all of whose upstream requests fail transiently reaches
\* the orchestrator as a ProviderError, and the circuit of the provider
\* called is open afterwards
C4_TransientFailureIsProviderError ==
    (/\ ev.task = "price"
     /\ ev.op = "call"
     /\ \A i \in 1..Len(ev.att) : ev.att[i] \in {"timeout", "5xx", "429"})
    => (ev.out = "ProviderError" /\ CircuitIsOpen(ev.prov))

\* C5: after a quotes call on the primary provider of a class raised
\* ProviderError, the primary's circuit is open, and every selection the quote
\* loop makes for the class within circuit_timeout of that error routes the
\* class to the fallback, never to the primary
C5_TrippedPrimaryIsAvoided ==
    [][ \A t \in AssetTypes :
          /\ (ev'.task = "price" /\ ev'.out = "ProviderError"
                /\ ev'.prov = PRIMARY_PROVIDERS[t])
                => CircuitIsOpen(PRIMARY_PROVIDERS[t])'
          /\ (/\ pc["price"] # "call"
              /\ pc'["price"] = "call"
              /\ Head(qTodo').asset_type = t
              /\ quoteErrorAt[PRIMARY_PROVIDERS[t]] >= 0
              /\ now <= quoteErrorAt[PRIMARY_PROVIDERS[t]] + circuit_breaker_timeout)
                => qProv' = FALLBACK_PROVIDERS[t]
      ]_vars

\* C6 as stated: whenever is_circuit_open(p) returns with the entry of p
\* tripped more than circuit_timeout ago, it returns False (the quote loop
\* goes on to call p) and no entry of p remains
C6_ExpiredEntryIsRemoved ==
    [][ /\ \A t \in AssetTypes :
             (/\ pc["price"] \in {"fetch", "closing"}
              /\ pc'["price"] = "call"
              /\ Head(qTodo).asset_type = t
              /\ circuit[PRIMARY_PROVIDERS[t]] # Nil
              /\ now > circuit[PRIMARY_PROVIDERS[t]][1].trip_time + circuit_breaker_timeout)
                => (qProv' = PRIMARY_PROVIDERS[t] /\ circuit'[PRIMARY_PROVIDERS[t]] = Nil)
        /\ \A p \in Providers :
             (/\ pc["http"] = "closing"
              /\ ev'.closed = p
              /\ circuit[p] # Nil
              /\ now > circuit[p][1].trip_time + circuit_breaker_timeout)
                => circuit'[p] = Nil
      ]_vars

\* C6 amended: the same, for the calls of is_circuit_open during which the
\* cache is reachable
C6_ExpiredEntryIsRemovedWhenReachable ==
    [][ redisUp =>
        /\ \A t \in AssetTypes :
             (/\ pc["price"] \in {"fetch", "closing"}
              /\ pc'["price"] = "call"
              /\ Head(qTodo).asset_type = t
              /\ circuit[PRIMARY_PROVIDERS[t]] # Nil
              /\ now > circuit[PRIMARY_PROVIDERS[t]][1].trip_time + circuit_breaker_timeout)
                => (qProv' = PRIMARY_PROVIDERS[t] /\ circuit'[PRIMARY_PROVIDERS[t]] = Nil)
        /\ \A p \in Providers :
             (/\ pc["http"] = "closing"
              /\ ev'.closed = p
              /\ circuit[p] # Nil
              /\ now > circuit[p][1].trip_time + circuit_breaker_timeout)
                => circuit'[p] = Nil
      ]_vars

\* the quote loop is about to call a primary whose quotes call raised more
\* than circuit_timeout ago, is_circuit_open having just removed the entry
\* before its TTL ran out
C6_Witness ==
    /\ redisUp
    /\ pc["price"] = "call"
    /\ ev.task = "price"
    /\ ev.closed = qProv
    /\ quoteErrorAt[qProv] >= 0
    /\ now > quoteErrorAt[qProv] + circuit_breaker_timeout
    /\ now < quoteErrorAt[qProv] + circuit_breaker_timeout + circuit_grace
    /\ circuit[qProv] = Nil

\* C7: with the cache reachable, is_circuit_open(p) is true right after
\* trip_circuit(p) and false right after close_circuit(p), and neither
\* changes the circuit entry of another provider
C7_TripOpensCloseCloses ==
    [][ redisUp =>
        \A p \in Providers :
          /\ ev'.tripped = p =>
                /\ circuit_get(p)' = "open"
                /\ \A q \in Providers \ {p} : circuit'[q] = circuit[q]
          /\ ev'.closed = p =>
                /\ circuit_get(p)' = "closed"
                /\ \A q \in Providers \ {p} : circuit'[q] = circuit[q]
      ]_vars

\* a trip_circuit(p) has just been awaited with the cache reachable, the
\* circuit of another provider being open too
C7_Witness ==
    /\ redisUp
    /\ ev.tripped # "-"
    /\ CircuitIsOpen(ev.tripped)
    /\ \E q \in Providers \ {ev.tripped} : CircuitIsOpen(q)

\* C8: a circuit entry of p is written only in a step in which a call to p
\* raised ProviderError
C8_OnlyItsProviderErrorTrips ==
    [][ \A p \in Providers :
          (circuit'[p] # circuit[p] /\ circuit'[p] # Nil)
            => (ev'.op = "call" /\ ev'.out = "ProviderError" /\ ev'.prov = p)
      ]_vars

C10_OnlyReturnedQuotesWritten ==
    [][ /\ \A s \in DOMAIN qAll' :
             (s \notin DOMAIN qAll \/ qAll'[s] # qAll[s])
               => /\ ev'.task = "price" /\ ev'.op = "call"
                  /\ s \in SeqToSet(qActive)
                  /\ upstream_symbol(ev'.prov, s) \in ev'.data
                  /\ qAll'[s].source = ev'.prov
        /\ \A s \in DOMAIN quotes' :
             (s \notin DOMAIN quotes \/ quotes'[s] # quotes[s])
               => /\ s \in SeqToSet(qActive)
                  /\ \/ (s \in DOMAIN qAll /\ quotes'[s].q = qAll[s])
                     \/ /\ ev'.task = "price" /\ ev'.op = "call"
                        /\ upstream_symbol(ev'.prov, s) \in ev'.data
                        /\ quotes'[s].q.source = ev'.prov
      ]_vars

\* an iteration has ended in which the upstream answered for AAPL and BTC-USD
\* but not for MSFT
C10_Witness ==
    /\ pc["price"] = "sleep"
    /\ ev.task = "price"
    /\ ev.op = "call"
    /\ AAPL \in DOMAIN quotes
    /\ BTCUSD \in DOMAIN quotes
    /\ MSFT \in SeqToSet(configActive)
    /\ MSFT \notin DOMAIN quotes

\* C11: every quote stored in the cache has price > 0 and a source that is
\* one of the five providers, the one whose adapter is defined for the price
\* of the symbol's class
C11_StoredQuotesValid ==
    \A k \in DOMAIN quotes :
        /\ quotes[k].q.price > 0
        /\ quotes[k].q.source \in Providers
        /\ quotes[k].q.source \in {PRIMARY_PROVIDERS[classify_symbol(k)],
                                   FALLBACK_PROVIDERS[classify_symbol(k)]}

\* C12: when a quote-loop iteration ends whose provider call returned a quote
\* for the active symbol s, whatever the letter case of s, the quote is stored
\* under the upper-case key and GET /v1/quote/{s} returns it with the symbol
\* in upper case and the serving provider as source (stated for the symbols
\* that a path parameter can carry)
C12_ReturnedQuoteIsServedUpperCase ==
    (/\ ev.task = "price"
     /\ ev.op = "call"
     /\ ev.out = "ok"
     /\ pc["price"] = "sleep")
    => \A i \in 1..Len(configActive) :
         LET s == configActive[i]
         IN  (/\ single_quote_route(s)
              /\ ev.prov \in {PRIMARY_PROVIDERS[classify_symbol(s)],
                               FALLBACK_PROVIDERS[classify_symbol(s)]}
              /\ upstream_symbol(ev.prov, s) \in ev.data)
             => /\ Upper(s) \in DOMAIN quotes
                /\ get_single_quote(s).status = "200"
                /\ get_single_quote(s).body.symbol = Upper(s)
                /\ get_single_quote(s).body.source = ev.prov

\* C13: with the cache reachable, when a quote-loop iteration has just stored
\* its mapping with set_quotes_in_cache, get_quotes_from_cache of the keys
\* stored returns exactly that mapping: the same key set and, for every key,
\* the quote that was stored
C13_GetReturnsWhatSetStored ==
    (/\ redisUp
     /\ ev.task = "price"
     /\ ev.op = "call"
     /\ pc["price"] = "sleep")
    => LET keys == SelectSeq(configActive,
                     LAMBDA s : /\ s \in DOMAIN quotes
                                /\ quotes[s].exp = setex(quotes_cache_ttl))
           got  == get_quotes_from_cache(keys)
       IN  /\ DOMAIN got = SeqToSet(keys)
           /\ \A k \in DOMAIN got : got[k] = quotes[k].q

\* the number of non-blank entries of a symbols parameter, repetitions counted
NonBlankEntries(symbols) ==
    LET pieces == SplitComma(symbols)
    IN  Cardinality({k \in 1..Len(pieces) : Strip(pieces[k]) # <<>>})

\* C14: GET /v1/quotes answers 400 exactly when the symbols parameter holds no
\* non-blank symbol or more than 100 symbols (the non-blank entries between
\* the commas); a 400 is answered without reading the cache and leaves every
\* circuit as it was
C14_BadRequestExactly ==
    [][ (ev'.task = "http" /\ ev'.op = "get_quotes")
        => LET n == NonBlankEntries(ev'.att)
           IN  /\ (ev'.out = "400") <=> (n = 0 \/ n > 100)
               /\ (ev'.out = "400")
                    => /\ ~ev'.data.read_cache
                       /\ UNCHANGED <<circuit, failures>>
               /\ (n >= 1 /\ n <= 100) => ev'.out = "200"
      ]_vars

\* a request of 101 symbols has been answered 400
C14_Witness ==
    /\ ev.task = "http"
    /\ ev.op = "get_quotes"
    /\ ev.out = "400"
    /\ NonBlankEntries(ev.att) = max_symbols + 1

\* the first entry of a symbols parameter that, trimmed and upper-cased, is
\* the symbol; 0 if there is none
FirstOccurrence(symbols, symbol) ==
    LET pieces == SplitComma(symbols)
        hits   == {k \in 1..Len(pieces) : Upper(Strip(pieces[k])) = symbol}
    IN  IF hits = {} THEN 0 ELSE CHOOSE k \in hits : \A h \in hits : k <= h

C16_ResponseIsCachedQuotes ==
    (ev.task = "http" /\ ev.op = "get_quotes" /\ ev.out = "200")
    => LET present == {k \in DOMAIN quotes : FirstOccurrence(ev.att, k) > 0}
           qs      == ev.data.quotes
       IN  /\ {qs[i] : i \in 1..Len(qs)} = {quotes[k].q : k \in present}
           /\ ev.data.total = Cardinality(present)
           /\ ev.data.total = Len(qs)
           /\ ev.data.cache_hit <=> ev.data.total >= 1
           /\ quotes = EmptyDict
                => (qs = <<>> /\ ev.data.total = 0 /\ ~ev.data.cache_hit)

\* C17: GET /v1/quote/{symbol}, for a non-blank symbol, answers 404 exactly
\* when the cache holds no decodable quote for the trimmed, upper-cased
\* symbol, and otherwise 200 with the cached quote of that symbol
C17_NotFoundExactly ==
    (ev.task = "http" /\ ev.op = "get_single_quote" /\ Strip(ev.att) # <<>>)
    => LET symbol == Upper(Strip(ev.att))
       IN  /\ (ev.out = "404") <=> ~quote_decodable(symbol)
           /\ quote_decodable(symbol)
                => (ev.out = "200" /\ ev.data.body = quotes[symbol].q)

\* C18: only the loops write the cache: a step of a request handler
\* (/health, /v1/providers/status, /info, /v1/symbols/active) writes no key,
\* refreshes no TTL and deletes no key
C18_HandlersLeaveCacheUnchanged ==
    [][ ev'.task = "http"
        => UNCHANGED <<circuit, failures, quotes, assets, activeKey, stampKey>>
      ]_vars

\* C19: while the Redis server is unreachable, get_quotes_from_cache returns
\* an empty mapping and get_asset_list an empty list, no step of a loop or of
\* a handler changes a key of the store (the set_* operations, trip_circuit
\* and close_circuit have no effect), no loop terminates, /health reports
\* unhealthy and /ready and /healthz answer 503
C19_UnreachableStore ==
    /\ [](~redisUp
            => /\ get_quotes_from_cache(configActive) = EmptyDict
               /\ \A t \in AssetTypes : cache_get_asset_list(t) = <<>>
               /\ ev.task = "http"
                    => /\ ev.op = "health_check" => ev.data.body = "unhealthy"
                       /\ ev.op = "healthz" => ev.out = "503"
                       /\ ev.op = "ready" => ev.out = "503"
                       /\ ev.op = "get_assets" => ev.data.body = <<>>)
    /\ [][ ~redisUp
           => /\ now' = now
                   => UNCHANGED <<circuit, failures, quotes, assets, activeKey, stampKey>>
              /\ \A t \in {"price", "asset"} : pc'[t] # "crashed"
         ]_vars

\* the store holds a quote and an asset list and both loops have stamped an
\* update, the server is unreachable, and /ready has just answered 503
C19_Witness ==
    /\ ~redisUp
    /\ quotes # EmptyDict
    /\ \E t \in AssetTypes : assets[t] # Nil
    /\ lastUpdate["price_fetch"] # Nil
    /\ lastUpdate["asset_list_update"] # Nil
    /\ ev.task = "http"
    /\ ev.op = "ready"
    /\ ev.out = "503"

\* C20: GET /ready answers 200 exactly when the Redis server is reachable,
\* each of the three loops (asset-list, quote, news) is still running and
\* some loop recorded an update within the last hour; otherwise, and in
\* particular when a loop has terminated, it answers 503
C20_ReadyExactly ==
    (ev.task = "http" /\ ev.op = "ready")
    => /\ (ev.out = "200")
            <=> /\ redisUp
                /\ \A t \in {"asset", "price", "news"} : pc[t] # "crashed"
                /\ \E k \in UpdateKeys :
                       lastUpdate[k] # Nil /\ now - lastUpdate[k][1] < 3600
       /\ ev.out \in {"200", "503"}

\* the step that ends an iteration of the quote loop or of the asset-list
\* loop without an exception leaving it
IterationEnds(t) ==
    \/ pc[t] # "sleep" /\ pc'[t] = "sleep"
    \/ t = "price" /\ ev'.task = "price" /\ ev'.op = "no_symbols"

\* C21: with the store reachable, every iteration of a loop that completes
\* stamps last_update:<loop> with the instant of its completion, which is not
\* earlier than the value the key held before (the clock of the model does
\* not separate two iterations of the quote loop), also when no provider
\* returned data and when the active list is empty
C21_IterationStamps ==
    [][ \A t \in {"price", "asset"} :
          LET k == IF t = "price" THEN "price_fetch" ELSE "asset_list_update"
          IN  (redisUp /\ IterationEnds(t))
              => /\ stampKey'[k] # Nil
                 /\ stampKey'[k][1].v = now'
                 /\ stampKey[k] # Nil => stampKey'[k][1].v >= stampKey[k][1].v
                 /\ lastUpdate'[k] = Some(now')
      ]_vars


\* C22: once the tasks are started, each of the three loops keeps iterating:
\* no loop task is done before shutdown() has set the signal or cancelled it,
\* whatever the provider and cache operations raise.
C22_LoopsRunUntilShutdown ==
    Running => \A t \in LoopTasks : ~task_done(t)


C25_FailingProviderIsolated ==
    [][ pc["price"] \in {"fetch", "call"} =>
          /\ pc'["price"] \in {"fetch", "call", "closing", "sleep"}
          /\ pc'["price"] # "sleep" =>
                \A k \in DOMAIN qAll : k \in DOMAIN qAll' /\ qAll'[k] = qAll[k]
          /\ (pc'["price"] = "sleep" /\ redisUp) =>
                /\ \A k \in DOMAIN qAll :
                      k \in DOMAIN quotes' /\ quotes'[k].q = qAll[k]
                /\ lastUpdate'["price_fetch"] = Some(now')
      ]_vars

\* the provider of the last class of an iteration raised, and the quote of
\* a symbol of another class is in the cache, written when the iteration ended
C25_Witness ==
    /\ ev.task = "price" /\ ev.op = "call"
    /\ ev.out \in {"ProviderError", "Exception"}
    /\ ev.prov \in {"coingecko", "coinmarketcap"}
    /\ pc["price"] = "sleep"
    /\ AAPL \in DOMAIN quotes
    /\ quotes[AAPL].exp = setex(quotes_cache_ttl)
    /\ lastUpdate["price_fetch"] = Some(now)


\* C26: under every interleaving of the tasks, is_circuit_open removes only
\* the expired entry it observed: an entry written by a trip_circuit less
\* than circuit_timeout ago is never deleted by a concurrent
\* is_circuit_open / close_circuit, so that no trip is lost.
C26_FreshTripNeverDeleted ==
    [][ \A p \in Providers :
          (/\ now' = now
           /\ circuit[p] # Nil
           /\ circuit[p][1].is_open
           /\ now <= circuit[p][1].trip_time + circuit_breaker_timeout)
            => (circuit'[p] # Nil /\ circuit'[p][1].is_open)
      ]_vars


\* C27: after the shutdown signal no loop starts a new iteration and every
\* loop ends; a loop in its inter-iteration sleep is woken at once, and an
\* iteration in flight runs to completion: its task is cancelled only when
\* the grace period of 10 seconds since the signal has run out.
C27_ShutdownDrainsLoops ==
    [][ \A t \in {"asset", "price"} :
          /\ (~Running /\ pc[t] = "sleep") => pc'[t] \in {"sleep", "cancelled"}
          /\ (pc[t] # "cancelled" /\ pc'[t] = "cancelled")
               => (pc[t] = "sleep" \/ now >= life.at + 10)
      ]_vars


\* C28: shutdown() always terminates and keeps the order signal, loops
\* finished, adapters disconnected, cache disconnected: no adapter is
\* disconnected while a loop task is not done; the cache is disconnected
\* only after the disconnect of every adapter was attempted, a failing one
\* stopping neither the others nor the cache disconnect; and no loop acts
\* once the disconnects have begun.
C28_ShutdownOrder ==
    /\ [](life.phase \in {"disconnecting", "closed"} => \A t \in LoopTasks : task_done(t))
    /\ [](life.closed # {} => life.phase \in {"disconnecting", "closed"})
    /\ []((~life.cache \/ life.phase = "closed") => life.todo = <<>>)
    /\ [][ /\ (ev'.task = "shutdown" /\ ev'.op = "disconnect")
               => /\ life'.todo = Tail(life.todo)
                  /\ life'.phase = "disconnecting"
           /\ (ev'.task = "shutdown" /\ ev'.op = "disconnect_cache")
               => /\ life.phase = "disconnecting"
                  /\ life.todo = <<>>
           /\ life.phase \in {"disconnecting", "closed"}
               => /\ \A t \in LoopTasks : pc'[t] = pc[t]
                  /\ ev'.task \notin LoopTasks
         ]_vars
    /\ (life.phase = "cancelling") ~> (life.phase = "closed")

\* shutdown() has returned: the quote loop was cancelled, the disconnect of
\* one adapter raised, the others and the cache were disconnected
C28_Witness ==
    /\ life.phase = "closed"
    /\ pc["price"] = "cancelled"
    /\ "finnhub" \notin life.closed
    /\ {"yfinance", "alpha_vantage"} \subseteq life.closed
    /\ ~life.cache


\* C29: a symbol is classified forex when it contains '/' or ends with
\* '=X'; otherwise crypto exactly when it starts with a known crypto ticker;
\* otherwise stocks: a symbol that holds a ticker past its first letter is
\* a stock.
C29_CryptoByPrefix ==
    \A i \in DOMAIN qTodo :
      \A j \in DOMAIN qTodo[i].symbols :
        LET sym == qTodo[i].symbols[j]
            forex == Contains(sym, <<"/">>) \/ EndsWith(sym, <<"=","X">>)
            starts == \E c \in crypto_tickers :
                         /\ Len(sym) >= Len(c)
                         /\ SubSeq(Upper(sym), 1, Len(c)) = c
        IN  qTodo[i].asset_type =
              IF forex THEN "forex" ELSE IF starts THEN "crypto" ELSE "stocks"


\* C30: in each iteration of the quote loop the buckets partition the active
\* list, every symbol in exactly one bucket and in the order of the list; the
\* provider selected for a class is asked for the symbols of that bucket and
\* returns quotes for no other; the keys merged from different buckets are
\* disjoint, so that the merged mapping does not depend on the order in
\* which the buckets are processed.
C30_BucketsPartition ==
    [][ /\ (pc["price"] = "sleep" /\ pc'["price"] # "sleep") =>
             LET a == qActive'
                 g == qTodo'
             IN  /\ \A i \in DOMAIN g :
                       /\ g[i].symbols # <<>>
                       /\ g[i].symbols =
                            SelectSeq(a, LAMBDA x : x \in SeqToSet(g[i].symbols))
                 /\ \A i, j \in DOMAIN g :
                       i # j => /\ g[i].asset_type # g[j].asset_type
                                /\ SeqToSet(g[i].symbols) \cap SeqToSet(g[j].symbols) = {}
                 /\ UNION {SeqToSet(g[i].symbols) : i \in DOMAIN g} = SeqToSet(a)
        /\ (pc["price"] # "call" /\ pc'["price"] = "call") =>
             qProv' \in {PRIMARY_PROVIDERS[Head(qTodo').asset_type],
                         FALLBACK_PROVIDERS[Head(qTodo').asset_type]}
        /\ (ev'.task = "price" /\ ev'.op = "call") =>
             LET bucket == SeqToSet(Head(qTodo).symbols)
             IN  /\ ev'.data \subseteq {upstream_symbol(ev'.prov, x) : x \in bucket}
                 /\ DOMAIN qAll \cap bucket = {}
                 /\ pc'["price"] # "sleep" =>
                       /\ (DOMAIN qAll') \ (DOMAIN qAll) \subseteq bucket
                       /\ \A k \in DOMAIN qAll : k \in DOMAIN qAll' /\ qAll'[k] = qAll[k]
                 /\ pc'["price"] = "sleep" =>
                       \A k \in DOMAIN quotes' :
                         (k \notin DOMAIN quotes \/ quotes'[k] # quotes[k])
                           => (k \in bucket) # (k \in DOMAIN qAll /\ quotes'[k].q = qAll[k])
      ]_vars

\* an iteration over a list whose classes alternate has ended: the stock
\* bucket AAPL, MSFT and the crypto bucket BTC-USD were both answered
C30_Witness ==
    /\ configActive = <<AAPL, BTCUSD, MSFT>>
    /\ pc["price"] = "sleep"
    /\ ev.task = "price" /\ ev.op = "call" /\ ev.out = "ok"
    /\ {AAPL, MSFT, BTCUSD} \subseteq DOMAIN quotes


\* C31: set_quotes_in_cache(M) replaces the entry of every symbol of M as a
\* whole and restarts its TTL at quotes_cache_ttl, and leaves the entry and
\* the TTL of every other symbol as they are; an entry disappears only when
\* its TTL has run out; and while both providers of a class have their
\* circuit open, the cached quotes of that class are not rewritten.
C31_QuotesReplacedOrLeftToAge ==
    [][ /\ \A k \in DOMAIN quotes' :
             (k \notin DOMAIN quotes \/ quotes'[k] # quotes[k])
               => /\ pc["price"] # "sleep" /\ pc'["price"] = "sleep"
                  /\ quotes'[k].exp = setex(quotes_cache_ttl)
                  /\ k \in DOMAIN qAll => quotes'[k].q = qAll[k]
        /\ (redisUp /\ pc["price"] # "sleep" /\ pc'["price"] = "sleep")
             => \A k \in DOMAIN qAll :
                  /\ k \in DOMAIN quotes'
                  /\ quotes'[k] = [q |-> qAll[k], exp |-> setex(quotes_cache_ttl)]
        /\ \A k \in (DOMAIN quotes) \ (DOMAIN quotes') : quotes[k].exp <= now'
        /\ \A t \in AssetTypes :
             (CircuitIsOpen(PRIMARY_PROVIDERS[t]) /\ CircuitIsOpen(FALLBACK_PROVIDERS[t]))
               => \A k \in DOMAIN quotes' :
                    classify_symbol(k) = t
                      => (k \in DOMAIN quotes /\ quotes'[k] = quotes[k])
      ]_vars


\* C32: in the asset-list loop the cached list of a class is replaced, as a
\* whole and with TTL assets_cache_ttl, only when the provider selected for
\* the class returned a non-empty list; when it returns an empty list or
\* raises, or the class is skipped, the list of the class and the lists of
\* the other classes stay as they are.
C32_AssetListReplacedOnlyByResult ==
    [][ /\ \A t \in AssetTypes :
             assets'[t] # assets[t] =>
               \/ /\ assets'[t] = Nil
                  /\ assets[t][1].exp <= now'
               \/ /\ ev'.task = "asset" /\ ev'.op = "call" /\ ev'.out = "ok"
                  /\ t = Head(aTodo)
                  /\ assets'[t] # Nil
                  /\ assets'[t][1].v # <<>>
                  /\ assets'[t][1].exp = setex(assets_cache_ttl)
        /\ (redisUp /\ ev'.task = "asset" /\ ev'.op = "call" /\ ev'.out = "ok")
             => /\ assets'[Head(aTodo)] # Nil
                /\ assets'[Head(aTodo)][1].exp = setex(assets_cache_ttl)
                /\ assets[Head(aTodo)] # Nil
                     => assets'[Head(aTodo)][1].v # <<MSFT>>
      ]_vars

\* the call for crypto raised: the list an earlier run left for crypto is
\* still there, and the list of stocks is the one Yahoo has just returned
C32_Witness ==
    /\ ev.task = "asset" /\ ev.op = "call" /\ ev.out = "ProviderError"
    /\ assets["crypto"] # Nil /\ assets["crypto"][1].v = <<MSFT>>
    /\ assets["stocks"] # Nil /\ assets["stocks"][1].v = <<AAPL>>
    /\ Head(aTodo) = "forex"


\* C33: every stored circuit entry has is_open true and a trip_time, and
\* its failure_count is the number of trip_circuit calls for the provider
\* since its circuit was last closed, by close_circuit or by the expiry of
\* the entry: the first trip after a closing stores 1, each further trip one
\* more than the entry before it.
C33_FailureCountSinceClosing ==
    /\ [](\A p \in Providers :
            circuit[p] # Nil => (circuit[p][1].is_open /\ circuit[p][1].trip_time >= 0))
    /\ [][ \A p \in Providers :
             (circuit'[p] # Nil /\ circuit'[p] # circuit[p])
               => circuit'[p][1].failure_count =
                    IF circuit[p] = Nil THEN 1 ELSE circuit[p][1].failure_count + 1
         ]_vars


-----------------------------------------------------------------------------
(* The request path of one adapter (providers/base.py): _apply_rate_limit and
   the attempt loop of _make_request, for callers that run concurrently on the
   event loop. Time is counted in steps of ClockStep seconds; a sleeping caller
   wakes at the first step at or after the end of its sleep. *)

ClockStep == 30
MaxClock == 120
MaxRequestCount == 6

rate_window == 60
retry_after_default == 60
retry_after_cap == 60

\* _get_rate_limit of each adapter
get_rate_limit(p) ==
    CASE p = "alpha_vantage" -> 4
      [] p = "coingecko"     -> 40
      [] p = "coinmarketcap" -> 15
      [] p = "finnhub"       -> 50
      [] p = "yfinance"      -> 30

\* what the upstream does to one client.request: a 2xx with a JSON body, a 2xx
\* whose body is no JSON, a status, httpx.TimeoutException, or another
\* httpx.TransportError
UpstreamOutcomes == {"ok", "badjson", "429", "401", "404", "500", "timeout", "network"}

Pow2(n) == IF n = 0 THEN 1 ELSE IF n = 1 THEN 2 ELSE 4

CallerIdle == [pc |-> "idle", attempt |-> 0, sent |-> 0, met |-> "-",
               slept |-> <<>>, wake |-> 0, res |-> "-"]

\* BaseDataProvider.__init__ of the adapter p, callers about to use it
AdapterInit(p, callers, up) ==
    [name |-> p, clock |-> 0, request_count |-> 0, last_request_time |-> 0,
     lock |-> 0, sent |-> 0, up |-> up,
     callers |-> [c \in callers |-> CallerIdle]]

RqFrame == UNCHANGED <<now, redisUp, providers, circuit, failures, quotes, assets,
                       activeKey, configActive, pc, qActive, qTodo, qProv, qAll,
                       aTodo, aProv, aEnum, aWake, hIdx, lastUpdate, stampKey,
                       nfail, quoteErrorAt, life, newsKey, nTodo, nsym, bad, db,
                       mdc, ev>>

\* datetime.utcnow() advances
ClockTick ==
    /\ rq.clock + ClockStep <= MaxClock
    /\ rq' = [rq EXCEPT !.clock = @ + ClockStep]
    /\ RqFrame

\* a caller enters _make_request and reaches `async with self._rate_limit_lock`
RequestStart(c) ==
    /\ rq.callers[c].pc = "idle"
    /\ rq.request_count < MaxRequestCount
    /\ rq' = [rq EXCEPT !.callers[c] = [CallerIdle EXCEPT !.pc = "limit"]]
    /\ RqFrame

\* _apply_rate_limit from the acquisition of the lock to its release or to
\* the await of asyncio.sleep(wait_time), the lock still held
RateLimitEnter(c) ==
    /\ rq.callers[c].pc = "limit"
    /\ rq.lock = 0
    /\ LET reset  == rq.clock - rq.last_request_time > rate_window
           count  == IF reset THEN 0 ELSE rq.request_count
           last   == IF reset THEN rq.clock ELSE rq.last_request_time
           sent   == IF reset THEN 0 ELSE rq.sent
           wait_time == rate_window - (rq.clock - last)
       IN  IF count >= get_rate_limit(rq.name) /\ wait_time > 0
           THEN rq' = [rq EXCEPT !.request_count = count,
                                 !.last_request_time = last,
                                 !.sent = sent,
                                 !.lock = c,
                                 !.callers[c].pc = "throttled",
                                 !.callers[c].wake = rq.clock + wait_time]
           ELSE rq' = [rq EXCEPT !.request_count = count + 1,
                                 !.last_request_time = last,
                                 !.sent = sent,
                                 !.callers[c].pc = "attempt"]
    /\ RqFrame

\* asyncio.sleep(wait_time) returns: the counter is reset, the window starts
\* again, the request is counted and the lock released
RateLimitWake(c) ==
    /\ rq.callers[c].pc = "throttled"
    /\ rq.clock >= rq.callers[c].wake
    /\ rq' = [rq EXCEPT !.request_count = 1,
                        !.last_request_time = rq.clock,
                        !.sent = 0,
                        !.lock = 0,
                        !.callers[c].pc = "attempt"]
    /\ RqFrame

\* one pass of `for attempt in range(retry_count)`: client.request is awaited
\* and meets o
Attempt(c, o) ==
    /\ rq.callers[c].pc = "attempt"
    /\ o \in rq.up
    /\ LET me   == rq.callers[c]
           last == ~(me.attempt < retry_count - 1)
           done(r) == [me EXCEPT !.pc = "done", !.sent = @ + 1, !.met = o, !.res = r]
           sleep(d) == [me EXCEPT !.pc = "backoff", !.sent = @ + 1, !.met = o,
                                  !.slept = Append(@, d), !.wake = rq.clock + d]
           next == CASE o = "ok"      -> done("data")
                     [] o = "badjson" -> done("ProviderError")
                     [] o = "401"     -> done("AuthenticationError")
                     [] o = "429"     -> IF last THEN done("RateLimitError")
                                         ELSE sleep(IF retry_after_default < retry_after_cap
                                                    THEN retry_after_default
                                                    ELSE retry_after_cap)
                     [] o = "timeout" -> IF last THEN done("ProviderError")
                                         ELSE sleep(Pow2(me.attempt))
                     [] OTHER         -> \* except httpx.HTTPError: HTTPStatusError
                                         \* of raise_for_status, transport errors
                                         IF last THEN done("ProviderError")
                                         ELSE sleep(Pow2(me.attempt))
           \* rq.sent counts the requests issued within the window that
           \* _last_request_time opened
           in_window == rq.clock - rq.last_request_time < rate_window
       IN  rq' = [rq EXCEPT !.sent = IF in_window THEN @ + 1 ELSE @,
                            !.callers[c] = next]
    /\ RqFrame

\* the sleep before the next attempt returns; `continue`
BackoffWake(c) ==
    /\ rq.callers[c].pc = "backoff"
    /\ rq.clock >= rq.callers[c].wake
    /\ rq' = [rq EXCEPT !.callers[c].pc = "attempt", !.callers[c].attempt = @ + 1]
    /\ RqFrame

\* _make_request has returned or raised; its caller may call again
RequestReturn(c) ==
    /\ rq.callers[c].pc = "done"
    /\ rq' = [rq EXCEPT !.callers[c] = CallerIdle]
    /\ RqFrame

Callers == {1, 2}

\* one caller of Alpha Vantage's adapter, the upstream answering in every way
InitRetry ==
    /\ InitCore({<<AAPL>>}, "start", {{}}, {{}})
    /\ ExtOff({"rq"})
    /\ rq = AdapterInit("alpha_vantage", {1}, UpstreamOutcomes)

\* two concurrent callers of Alpha Vantage's adapter, the upstream answering
\* or timing out
InitLimit ==
    /\ InitCore({<<AAPL>>}, "start", {{}}, {{}})
    /\ ExtOff({"rq"})
    /\ rq = AdapterInit("alpha_vantage", Callers, {"ok", "timeout"})

NextRequest ==
    \/ ClockTick
    \/ \E c \in DOMAIN rq.callers :
          \/ RequestStart(c)
          \/ RateLimitEnter(c)
          \/ RateLimitWake(c)
          \/ \E o \in UpstreamOutcomes : Attempt(c, o)
          \/ BackoffWake(c)
          \/ RequestReturn(c)

SpecRetry == InitRetry /\ [][NextRequest]_vars

SpecLimit == InitLimit /\ [][NextRequest]_vars


\* C34: every call of _make_request ends after at most 3 upstream attempts;
\* it goes on to another attempt only after a timeout, a network error, a 5xx
\* or a 429, sleeping 1s, 2s, 4s by the number of the attempt (after a 429,
\* as the response asks); any other 4xx ends the call after a single attempt,
\* and a 401 raises AuthenticationError at once.
C34_RetriesOnlyTransientFailures ==
    /\ [](\A c \in DOMAIN rq.callers : rq.callers[c].sent <= 3)
    /\ [][ \A c \in DOMAIN rq.callers :
             rq'.callers[c].sent = rq.callers[c].sent + 1
               => /\ rq'.callers[c].pc = "backoff"
                       => /\ rq'.callers[c].met \in {"timeout", "network", "500", "429"}
                          /\ rq'.callers[c].met # "429"
                               => rq'.callers[c].slept =
                                    Append(rq.callers[c].slept, Pow2(rq.callers[c].attempt))
                  /\ rq'.callers[c].met = "404"
                       => (rq'.callers[c].pc = "done" /\ rq'.callers[c].sent = 1)
                  /\ rq'.callers[c].met = "401"
                       => /\ rq'.callers[c].pc = "done"
                          /\ rq'.callers[c].res = "AuthenticationError"
         ]_vars


\* C35: the requests an adapter issues within one rate window never exceed
\* its per-minute budget: _request_count is at most _get_rate_limit() in every
\* state, a caller that finds the budget used up waits until the window has
\* rolled, and every caller that passes _apply_rate_limit is counted exactly
\* once.
C35_RateBudgetRespected ==
    /\ [](/\ rq.sent <= get_rate_limit(rq.name)
          /\ rq.request_count <= get_rate_limit(rq.name))
    /\ [][ \A c \in DOMAIN rq.callers :
             (rq.callers[c].pc \in {"limit", "throttled"} /\ rq'.callers[c].pc = "attempt")
               => /\ rq'.request_count =
                       (IF rq'.last_request_time # rq.last_request_time
                             \/ rq.callers[c].pc = "throttled"
                        THEN 0 ELSE rq.request_count) + 1
                  /\ rq.request_count >= get_rate_limit(rq.name)
                       => rq.clock - rq.last_request_time >= rate_window
         ]_vars


-----------------------------------------------------------------------------
(* _normalize_symbol of the five adapters, applied to a symbol and then to
   its own result *)

\* AlphaVantageProvider._normalize_symbol
alpha_vantage_normalize_symbol(symbol, t) ==
    LET u == Upper(Strip(symbol))
    IN  IF t = "forex" /\ ~Contains(u, <<"/">>) /\ Len(u) = 6
        THEN SubSeq(u, 1, 3) \o <<"/">> \o SubSeq(u, 4, 6)
        ELSE u

\* symbol.split('/') does not unpack into (base, quote)
normalize_symbol_raises(p, symbol, t) ==
    p = "yfinance" /\ t = "forex" /\ CountChar(symbol, "/") > 1

\* _normalize_symbol of the adapter p; FinnhubProvider inherits
\* BaseDataProvider._normalize_symbol
normalize_symbol(p, symbol, t) ==
    CASE p = "yfinance"      -> yfinance_normalize_symbol(symbol, t)
      [] p = "coingecko"     -> crypto_normalize_symbol(symbol)
      [] p = "coinmarketcap" -> crypto_normalize_symbol(symbol)
      [] p = "alpha_vantage" -> alpha_vantage_normalize_symbol(symbol, t)
      [] p = "finnhub"       -> Upper(Strip(symbol))

BUSDUSD == <<"B","U","S","D","-","U","S","D">>

NormSymbols ==
    {AAPL, aapl, <<" ">> \o aapl \o <<" ">>, BTCUSD, BUSDUSD,
     <<"b","t","c","-","u","s","d","t">>, <<"B","T","C","U","S","D">>,
     EURUSD, <<"E","U","R","U","S","D">>, <<"e","u","r","u","s","d","=","X">>,
     <<"A","/","B","/","C">>}

NormFrame == UNCHANGED <<now, redisUp, providers, circuit, failures, quotes, assets,
                         activeKey, configActive, pc, qActive, qTodo, qProv, qAll,
                         aTodo, aProv, aEnum, aWake, hIdx, lastUpdate, stampKey,
                         nfail, quoteErrorAt, life, newsKey, nTodo, rq, bad, db,
                         mdc, ev>>

\* _normalize_symbol(symbol, asset_type) of the adapter
NormalizeOnce ==
    /\ nsym.pc = "given"
    /\ nsym' = IF normalize_symbol_raises(nsym.provider, nsym.symbol, nsym.asset_type)
               THEN [nsym EXCEPT !.pc = "ValueError"]
               ELSE [nsym EXCEPT !.pc = "once",
                       !.once = normalize_symbol(nsym.provider, nsym.symbol, nsym.asset_type)]
    /\ NormFrame

\* _normalize_symbol applied to the result
NormalizeAgain ==
    /\ nsym.pc = "once"
    /\ nsym' = IF normalize_symbol_raises(nsym.provider, nsym.once, nsym.asset_type)
               THEN [nsym EXCEPT !.pc = "ValueError"]
               ELSE [nsym EXCEPT !.pc = "twice",
                       !.twice = normalize_symbol(nsym.provider, nsym.once, nsym.asset_type)]
    /\ NormFrame

InitNorm ==
    /\ InitCore({<<AAPL>>}, "start", {{}}, {{}})
    /\ ExtOff({"nsym"})
    /\ \E p \in Providers, t \in AssetTypes, symbol \in NormSymbols :
          nsym = [pc |-> "given", provider |-> p, asset_type |-> t, symbol |-> symbol,
                  once |-> <<>>, twice |-> <<>>]

NextNorm == NormalizeOnce \/ NormalizeAgain

SpecNorm == InitNorm /\ [][NextNorm]_vars

\* C36: for every adapter, asset type and symbol on which _normalize_symbol
\* is defined, normalising the result again gives the same result.
C36_NormalizeIdempotent ==
    nsym.pc = "twice" => nsym.twice = nsym.once


-----------------------------------------------------------------------------
(* Reads of cache entries whose value does not decode (services/cache.py):
   bad.quotes and bad.assets are the keys under which something other than
   set_quotes_in_cache and set_asset_list has left a value that json.loads or
   the model constructor refuses *)

DecodeSymbols == {AAPL, MSFT}
DecodeRequests == {<<AAPL>>, <<MSFT>>, <<AAPL, MSFT>>, <<MSFT, BTCUSD, AAPL>>}
DecodeBatches ==
    {[k \in ks |-> Quote(k, round_unit, "yfinance")] : ks \in (SUBSET DecodeSymbols) \ {{}}}

DecodeFrame == UNCHANGED <<now, redisUp, providers, circuit, failures,
                           activeKey, configActive, pc, qActive, qTodo, qProv, qAll,
                           aTodo, aProv, aEnum, aWake, hIdx, lastUpdate, stampKey,
                           nfail, quoteErrorAt, life, newsKey, nTodo, rq, nsym, db,
                           mdc, ev>>

\* set_quotes_in_cache(m): the SETEX of every symbol of m
StoreQuotes ==
    /\ bad.pc = "idle"
    /\ \E m \in DecodeBatches :
          /\ set_quotes_in_cache(m)
          /\ bad' = [bad EXCEPT !.quotes = @ \ DOMAIN m]
    /\ UNCHANGED assets
    /\ DecodeFrame

\* set_asset_list(t, l)
StoreAssets ==
    /\ bad.pc = "idle"
    /\ \E t \in AssetTypes :
          /\ set_asset_list(t, <<AAPL>>)
          /\ bad' = [bad EXCEPT !.assets = @ \ {t}]
    /\ UNCHANGED quotes
    /\ DecodeFrame

\* the value under quotes:{k} becomes one that does not decode
CorruptQuote ==
    /\ bad.pc = "idle"
    /\ \E k \in (DOMAIN quotes) \ bad.quotes : bad' = [bad EXCEPT !.quotes = @ \cup {k}]
    /\ UNCHANGED <<quotes, assets>>
    /\ DecodeFrame

\* the value under assets:{t} becomes one that does not decode
CorruptAssets ==
    /\ bad.pc = "idle"
    /\ \E t \in AssetTypes \ bad.assets :
          /\ assets[t] # Nil
          /\ bad' = [bad EXCEPT !.assets = @ \cup {t}]
    /\ UNCHANGED <<quotes, assets>>
    /\ DecodeFrame

\* await cache_service.get_quotes_from_cache(symbols)
ReadQuotes ==
    /\ bad.pc = "idle"
    /\ \E symbols \in DecodeRequests :
          bad' = [bad EXCEPT !.pc = "read",
                             !.got = [op |-> "get_quotes_from_cache", arg |-> symbols,
                                      out |-> get_quotes_from_cache(symbols)]]
    /\ UNCHANGED <<quotes, assets>>
    /\ DecodeFrame

\* await cache_service.get_asset_list(asset_type)
ReadAssets ==
    /\ bad.pc = "idle"
    /\ \E t \in AssetTypes :
          bad' = [bad EXCEPT !.pc = "read",
                             !.got = [op |-> "get_asset_list", arg |-> t,
                                      out |-> cache_get_asset_list(t)]]
    /\ UNCHANGED <<quotes, assets>>
    /\ DecodeFrame

\* the caller has the result
ReadReturn ==
    /\ bad.pc = "read"
    /\ bad' = [bad EXCEPT !.pc = "idle"]
    /\ UNCHANGED <<quotes, assets>>
    /\ DecodeFrame

InitDecode ==
    /\ InitCore({<<AAPL>>}, "start", {{}}, {{}})
    /\ ExtOff({"bad"})
    /\ bad = BadNone

NextDecode ==
    \/ StoreQuotes
    \/ StoreAssets
    \/ CorruptQuote
    \/ CorruptAssets
    \/ ReadQuotes
    \/ ReadAssets
    \/ ReadReturn

SpecDecode == InitDecode /\ [][NextDecode]_vars


\* C37: a cache entry that does not decode is a miss for its key only:
\* get_quotes_from_cache leaves the corrupted symbol out and returns every
\* other requested symbol whose entry is valid, get_asset_list returns the
\* empty list for a corrupted list, and neither read changes a stored entry.
C37_DecodeFailureIsAMiss ==
    [][ (bad.pc = "idle" /\ bad'.pc = "read")
          => /\ quotes' = quotes
             /\ assets' = assets
             /\ bad'.quotes = bad.quotes
             /\ bad'.assets = bad.assets
             /\ bad'.got.op = "get_quotes_from_cache"
                  => /\ DOMAIN bad'.got.out \subseteq SeqToSet(bad'.got.arg)
                     /\ \A k \in SeqToSet(bad'.got.arg) :
                          IF k \in DOMAIN quotes /\ k \notin bad.quotes
                          THEN /\ k \in DOMAIN bad'.got.out
                               /\ bad'.got.out[k] = quotes[k].q
                          ELSE k \notin DOMAIN bad'.got.out
             /\ bad'.got.op = "get_asset_list"
                  => bad'.got.out =
                       IF assets[bad'.got.arg] = Nil \/ bad'.got.arg \in bad.assets
                       THEN <<>>
                       ELSE assets[bad'.got.arg][1].v
      ]_vars

\* get_quotes_from_cache of three symbols has returned the quote of MSFT, the
\* entry of AAPL being corrupted and BTC-USD having none, while the list of
\* an asset type is corrupted too
C37_Witness ==
    /\ bad.pc = "read"
    /\ bad.got.op = "get_quotes_from_cache"
    /\ bad.got.arg = <<MSFT, BTCUSD, AAPL>>
    /\ AAPL \in bad.quotes
    /\ DOMAIN bad.got.out = {MSFT}
    /\ bad.assets # {}


-----------------------------------------------------------------------------
(* The paper-trading backend (src/backend/crud.py): one portfolio and one
   asset. Money is counted in tenths of a cent, quantities in tenths of a
   share, prices in cents per share, so that quantity * price is an amount of
   money as it stands. The cost basis columns of a holding and the user
   statistics, which no trade reads back, are left out. *)

MaxTrades == 3
InitialCash == 60
TradeQuantities == {5, 10, 20}
TradePrices == {1, 3}

\* Numeric(precision=15, scale=2): the column keeps cents; PostgreSQL rounds
\* the value written, the tie away from zero
cents_unit == 10

round_cents(v) == ((v + cents_unit \div 2) \div cents_unit) * cents_unit

\* delete_holding: the row is deleted if its quantity is 0
delete_holding(holding) ==
    IF holding # Nil /\ holding[1].quantity = 0 THEN Nil ELSE holding

\* update_holding
update_holding(holding, quantity) ==
    IF holding # Nil THEN Some([holding[1] EXCEPT !.quantity = quantity]) ELSE holding

\* create_transaction; total_amount is a Numeric(15, 2) column
create_transaction(txs, type, quantity, total_amount) ==
    Append(txs, [transaction_type |-> type, quantity |-> quantity,
                 total_amount |-> round_cents(total_amount)])

TradeFrame == UNCHANGED <<now, redisUp, providers, circuit, failures, quotes, assets,
                          activeKey, configActive, pc, qActive, qTodo, qProv, qAll,
                          aTodo, aProv, aEnum, aWake, hIdx, lastUpdate, stampKey,
                          nfail, quoteErrorAt, life, newsKey, nTodo, rq, nsym, bad,
                          mdc, ev>>

TradeOut(type, quantity, price, res) ==
    [op |-> type, quantity |-> quantity, price |-> price, res |-> res]

\* execute_buy_trade(db, portfolio_id, asset_id, quantity, price)
execute_buy_trade ==
    /\ \E quantity \in TradeQuantities, price \in TradePrices :
          LET total_cost == quantity * price
          IN  IF db.cash_balance < total_cost
              THEN db' = [db EXCEPT !.out = TradeOut("BUY", quantity, price, "ValueError")]
              ELSE /\ Len(db.transactions) < MaxTrades
                   /\ db' = [db EXCEPT
                        !.cash_balance = round_cents(db.cash_balance - total_cost),
                        !.holding = IF db.holding # Nil
                                    THEN update_holding(db.holding,
                                                        db.holding[1].quantity + quantity)
                                    ELSE Some([quantity |-> quantity]),
                        !.transactions = create_transaction(@, "BUY", quantity, total_cost),
                        !.out = TradeOut("BUY", quantity, price, "ok")]
    /\ TradeFrame

\* execute_sell_trade(db, portfolio_id, asset_id, quantity, price)
execute_sell_trade ==
    /\ \E quantity \in TradeQuantities, price \in TradePrices :
          IF db.holding = Nil \/ db.holding[1].quantity < quantity
          THEN db' = [db EXCEPT !.out = TradeOut("SELL", quantity, price, "ValueError")]
          ELSE LET total_proceeds == quantity * price
                   new_quantity == db.holding[1].quantity - quantity
               IN  /\ Len(db.transactions) < MaxTrades
                   /\ db' = [db EXCEPT
                        !.cash_balance = round_cents(db.cash_balance + total_proceeds),
                        !.holding = IF new_quantity = 0
                                    THEN delete_holding(db.holding)
                                    ELSE update_holding(db.holding, new_quantity),
                        !.transactions = create_transaction(@, "SELL", quantity,
                                                            total_proceeds),
                        !.out = TradeOut("SELL", quantity, price, "ok")]
    /\ TradeFrame

\* a portfolio with its initial cash, no holding and no transaction
InitTrade ==
    /\ InitCore({<<AAPL>>}, "start", {{}}, {{}})
    /\ ExtOff({"db"})
    /\ db = [cash_balance |-> InitialCash, holding |-> Nil, transactions |-> <<>>,
             out |-> TradeOut("-", 0, 0, "-")]

NextTrade == execute_buy_trade \/ execute_sell_trade

SpecTrade == InitTrade /\ [][NextTrade]_vars

RECURSIVE total_quantity(_, _)
total_quantity(txs, type) ==
    IF txs = <<>> THEN 0
    ELSE (IF Head(txs).transaction_type = type THEN Head(txs).quantity ELSE 0)
         + total_quantity(Tail(txs), type)

\* C38: after a successful execute_sell_trade of q on a holding of h >= q the
\* holding's quantity is h - q and the holding is gone when q = h; the total
\* quantity sold never exceeds the total quantity bought; a sell of more than
\* is held raises ValueError and changes neither cash, holding nor
\* transactions.
C38_SellNeverExceedsHolding ==
    /\ [](total_quantity(db.transactions, "SELL") <= total_quantity(db.transactions, "BUY"))
    /\ [][ db'.out.op = "SELL"
             => /\ db'.out.res = "ok"
                     => /\ db.holding # Nil
                        /\ db.holding[1].quantity >= db'.out.quantity
                        /\ IF db'.out.quantity = db.holding[1].quantity
                           THEN db'.holding = Nil
                           ELSE /\ db'.holding # Nil
                                /\ db'.holding[1].quantity =
                                     db.holding[1].quantity - db'.out.quantity
                /\ db'.out.res = "ValueError"
                     => /\ db.holding = Nil \/ db.holding[1].quantity < db'.out.quantity
                        /\ db'.cash_balance = db.cash_balance
                        /\ db'.holding = db.holding
                        /\ db'.transactions = db.transactions
         ]_vars


\* C39: cash_balance is never negative; a buy whose total cost
\* quantity * price exceeds the cash balance raises ValueError and changes
\* neither cash, holding nor transactions; a successful buy decreases cash by
\* exactly quantity * price and increases the holding's quantity by exactly
\* quantity.
C39_BuyWithinCash ==
    /\ [](db.cash_balance >= 0)
    /\ [][ db'.out.op = "BUY"
             => LET cost == db'.out.quantity * db'.out.price
                    held == IF db.holding = Nil THEN 0 ELSE db.holding[1].quantity
                IN  /\ cost > db.cash_balance
                         => /\ db'.out.res = "ValueError"
                            /\ db'.cash_balance = db.cash_balance
                            /\ db'.holding = db.holding
                            /\ db'.transactions = db.transactions
                    /\ db'.out.res = "ok"
                         => /\ db'.cash_balance = db.cash_balance - cost
                            /\ db'.holding # Nil
                            /\ db'.holding[1].quantity = held + db'.out.quantity
         ]_vars


-----------------------------------------------------------------------------
(* The backend's client of the aggregator
   (src/backend/services/market_data_client.py): get_quote and the
   _retry_request it goes through *)

max_retries == 3

\* what one invocation of the request function meets: a 2xx response, a
\* status that response.raise_for_status() raises httpx.HTTPStatusError for,
\* httpx.ConnectError, httpx.TimeoutException, another httpx.NetworkError, or
\* an exception of another class
ClientOutcomes == {"ok", "400", "404", "500", "connect", "timeout", "network", "other"}

\* every error retried, whatever the status
client_retryable_any_status(o) == o \notin {"ok", "other"}

\* the except clauses of _retry_request that go on to another attempt
client_retryable(o) == o \in {"connect", "timeout", "network", "500"}

ClientIdle == [pc |-> "idle", attempt |-> 0, calls |-> 0, met |-> <<>>,
               slept |-> <<>>, res |-> "-", quote |-> "-"]

ClientFrame == UNCHANGED <<now, redisUp, providers, circuit, failures, quotes, assets,
                           activeKey, configActive, pc, qActive, qTodo, qProv, qAll,
                           aTodo, aProv, aEnum, aWake, hIdx, lastUpdate, stampKey,
                           nfail, quoteErrorAt, life, newsKey, nTodo, rq, nsym, bad,
                           db, ev>>

\* get_quote(symbol) reaches `await self._retry_request(_quote_request)`
ClientStart ==
    /\ mdc.pc = "idle"
    /\ mdc' = [ClientIdle EXCEPT !.pc = "attempt"]
    /\ ClientFrame

\* one pass of `for attempt in range(self.max_retries + 1)`
ClientAttempt ==
    /\ mdc.pc = "attempt"
    /\ \E o \in ClientOutcomes :
          LET called == [mdc EXCEPT !.calls = @ + 1, !.met = Append(@, o)]
          IN  mdc' =
                IF o = "ok"
                THEN [called EXCEPT !.pc = "returned", !.res = "response"]
                ELSE IF client_retryable(o)
                THEN IF mdc.attempt = max_retries
                     THEN [called EXCEPT !.pc = "returned",
                                         !.res = "MarketDataConnectionError"]
                     ELSE [called EXCEPT !.pc = "backoff",
                                         !.slept = Append(@, Pow2(mdc.attempt))]
                ELSE IF o = "other"
                THEN [called EXCEPT !.pc = "returned", !.res = "Exception"]
                ELSE [called EXCEPT !.pc = "returned", !.res = "HTTPStatusError"]
    /\ ClientFrame

\* asyncio.sleep(delay) returns
ClientBackoffWake ==
    /\ mdc.pc = "backoff"
    /\ mdc' = [mdc EXCEPT !.pc = "attempt", !.attempt = @ + 1]
    /\ ClientFrame

\* get_quote after _retry_request: the quote, or its except clauses
GetQuoteReturn ==
    /\ mdc.pc = "returned"
    /\ mdc' = [mdc EXCEPT !.pc = "done",
                 !.quote = CASE mdc.res = "response" -> "MarketQuote"
                             [] mdc.res = "HTTPStatusError" ->
                                  IF mdc.met[Len(mdc.met)] = "404" THEN "None"
                                  ELSE "MarketDataConnectionError"
                             [] mdc.res = "MarketDataConnectionError" ->
                                  "MarketDataConnectionError"
                             [] OTHER -> "MarketDataClientError"]
    /\ ClientFrame

\* the caller of get_quote goes on
ClientDone ==
    /\ mdc.pc = "done"
    /\ mdc' = ClientIdle
    /\ ClientFrame

InitClient ==
    /\ InitCore({<<AAPL>>}, "start", {{}}, {{}})
    /\ ExtOff({"mdc"})
    /\ mdc = ClientIdle

NextClient ==
    \/ ClientStart
    \/ ClientAttempt
    \/ ClientBackoffWake
    \/ GetQuoteReturn
    \/ ClientDone

SpecClient == InitClient /\ [][NextClient]_vars

\* C40: _retry_request ends after at most max_retries + 1 invocations of the
\* request; it goes on to another attempt only after a connection error, a
\* timeout, a network error or a 5xx; a 4xx is re-raised by the attempt that
\* met it (a 404 on a quote gives None from get_quote); and it raises
\* MarketDataConnectionError exactly when every attempt failed with one of
\* the retried errors.
C40_ClientRetriesOnlyTransient ==
    /\ [](/\ mdc.calls <= max_retries + 1
          /\ mdc.pc \in {"returned", "done"}
               => /\ mdc.res = "MarketDataConnectionError"
                    <=> \A i \in 1..Len(mdc.met) :
                           mdc.met[i] \in {"connect", "timeout", "network", "500"}
                  /\ mdc.res = "MarketDataConnectionError" => mdc.calls = max_retries + 1
          /\ (mdc.pc = "done" /\ mdc.met[Len(mdc.met)] = "404") => mdc.quote = "None")
    /\ [][ mdc'.calls = mdc.calls + 1
             => LET o == mdc'.met[Len(mdc'.met)]
                IN  /\ mdc'.pc = "backoff"
                         => o \in {"connect", "timeout", "network", "500"}
                    /\ o \in {"400", "404"}
                         => (mdc'.pc = "returned" /\ mdc'.res = "HTTPStatusError")
         ]_vars

\* _retry_request has raised MarketDataConnectionError after a timeout, a
\* 500, a connection error and a network error, having slept 1s, 2s and 4s
C40_Witness ==
    /\ mdc.pc = "returned"
    /\ mdc.res = "MarketDataConnectionError"
    /\ mdc.met = <<"timeout", "500", "connect", "network">>
    /\ mdc.slept = <<1, 2, 4>>

=============================================================================
